---------------------------- MODULE Spec2Model ----------------------------
(***************************************************************************)
(* A model of the EPUB reading-order processor: reading_core.py (the       *)
(* per-file reconstruction pipeline and the folder driver) and app.py (the *)
(* job registry of the web front end).                                     *)
(*                                                                         *)
(* Text is a sequence of one-character strings.  A document tree is a      *)
(* record [tag, cls, text, kids, type, start, attr_id, aria_hidden, src,   *)
(* alt, id]: "#text" nodes carry text, elements carry kids.  id is the     *)
(* node's path at parse time and stands for the identity of the Python     *)
(* object.                                                                 *)
(***************************************************************************)
EXTENDS Integers, Sequences, FiniteSets, TLC

VARIABLES
    \* ---- process_folder (reading_core.py) ----
    disk,            \* the paths below input_folder
    case_sensitive,  \* whether the platform's glob matches case-sensitively
    has_cb,          \* progress_callback is not None
    pc,              \* position inside process_folder
    files,           \* _collect_files' result
    total,           \* len(files)
    idx,             \* the loop index of process_folder (1-based)
    rows,            \* the report rows appended so far
    calls,           \* the progress callback's invocations, in order
    report_path,     \* process_folder's return value
    \* ---- the per-file repair passes of process_file (reading_core.py) ----
    stage,           \* the pass that runs next, or "idle"
    source_stream,   \* merged_stream as the stream merge left it
    html_fragment,   \* the argument of the pass that ran last
    merged_stream,   \* the fragment after the passes that have run
    footer_html,     \* move_page_number_to_footer's footer fragment
    page_num,        \* move_page_number_to_footer's page number, or None
    h1_candidates,   \* process_file's h1_candidates
    chosen_h1,       \* inject_h1_for_runtime_match's title, or None
    text_content,    \* recompute_text_from_html_fragment's text
    \* ---- table detection and rendering (reading_core.py) ----
    tpc,             \* the call that runs next, or "idle"
    tokens,          \* collect_tokens' result
    y_tol,           \* group_by_y's y_tol
    min_rows,        \* the detectors' min_rows
    grouped,         \* group_by_y's result
    regrouped,       \* the result of a second group_by_y
    comparison,      \* detect_comparison_table's outcome
    fact,            \* detect_fact_table's outcome
    block,           \* a block of render_page_with_tables' loop
    rendered,        \* the block after the loop's body
    blocks,          \* render_page_with_tables' blocks, before resolve_overlaps
    chosen,          \* resolve_overlaps' result
    page_html,       \* render_page_with_tables' result
    \* ---- patch_source_file (reading_core.py) ----
    ppc,             \* "call" while patch_source_file may be called, or "idle"
    original_file,   \* the source file before the first call
    previous_file,   \* the source file before the last call
    source_file,     \* the source file, as html.parser reads it
    insertion_fragment, \* insertion_fragment_html
    patch_soup,      \* soup when the last call reached its write
    patched,         \* the last call's first return value
    patch_note,      \* the last call's second return value
    patch_calls,     \* the calls that have returned
    patch_successes, \* the calls that have returned True
    file_encoding,   \* "utf-8" when the source file's bytes are valid UTF-8
    read_attempts,   \* the encodings the last call read the file with
    \* ---- process_file (reading_core.py) ----
    fpc,             \* the step of process_file that runs next, or "idle"
    html_src,        \* html_src, as html.parser reads it
    feature_titles,  \* feature_titles
    structured_dom,  \* extract_structured_dom_from_html's result
    ptable_stream,   \* the table/list stream
    use_dom_tables_only, \* the source holds table markup
    patch_enabled,   \* patch_enabled
    outputs,         \* the reading-order files written to output_folder
    info,            \* process_file's return value, or None
    \* ---- the job registry and the background workers (app.py) ----
    JOBS,            \* the registry: job id -> the job's record
    wpc,             \* where the request and the worker of each job id are
    wframe,          \* the locals of each worker: process_folder's idx and
                     \* total, update_progress' message, where it returns to
    archives,        \* the job ids whose work_dir holds results.zip
    response         \* the last HTTP response

folderVars == <<disk, case_sensitive, has_cb, pc, files, total, idx, rows,
                calls, report_path>>

fileVars == <<stage, source_stream, html_fragment, merged_stream, footer_html,
              page_num, h1_candidates, chosen_h1, text_content>>

tableVars == <<tpc, tokens, y_tol, min_rows, grouped, regrouped, comparison, fact,
               block, rendered, blocks, chosen, page_html>>

patchVars == <<ppc, original_file, previous_file, source_file, insertion_fragment,
               patch_soup, patched, patch_note, patch_calls, patch_successes,
               file_encoding, read_attempts>>

procVars == <<fpc, html_src, feature_titles, structured_dom, ptable_stream,
              use_dom_tables_only, patch_enabled, outputs, info>>

jobVars == <<JOBS, wpc, wframe, archives, response>>

vars == <<folderVars, fileVars, tableVars, patchVars, procVars, jobVars>>

\* What an operation of one part leaves alone
notFolderVars == <<fileVars, tableVars, patchVars, procVars, jobVars>>
notFileVars   == <<folderVars, tableVars, patchVars, procVars, jobVars>>
notTableVars  == <<folderVars, fileVars, patchVars, procVars, jobVars>>
notPatchVars  == <<folderVars, fileVars, tableVars, procVars, jobVars>>
notProcVars   == <<folderVars, fileVars, tableVars, patchVars, jobVars>>
notJobVars    == <<folderVars, fileVars, tableVars, patchVars, procVars>>

-----------------------------------------------------------------------------
(* Characters and strings *)

\* The characters the model uses, in code-point order.
Ascii ==
    <<" ", "!", ")", ".", "/", "0", "1", "2", "3", "5", "7", "9", "?",
      "A", "B", "G", "H", "L", "M", "N", "R", "T",
      "a", "b", "c", "d", "e", "g", "h", "l", "m", "n", "o", "r", "t", "w", "x">>

Ord(c) == CHOOSE i \in 1..Len(Ascii) : Ascii[i] = c

Upper ==
    {"A", "B", "C", "D", "E", "F", "G", "H", "I", "J", "K", "L", "M",
     "N", "O", "P", "Q", "R", "S", "T", "U", "V", "W", "X", "Y", "Z"}

\* str.lower() on one character
LowerChar(c) ==
    CASE c = "A" -> "a"
      [] c = "B" -> "b"
      [] c = "C" -> "c"
      [] c = "D" -> "d"
      [] c = "E" -> "e"
      [] c = "F" -> "f"
      [] c = "G" -> "g"
      [] c = "H" -> "h"
      [] c = "I" -> "i"
      [] c = "J" -> "j"
      [] c = "K" -> "k"
      [] c = "L" -> "l"
      [] c = "M" -> "m"
      [] c = "N" -> "n"
      [] c = "O" -> "o"
      [] c = "P" -> "p"
      [] c = "Q" -> "q"
      [] c = "R" -> "r"
      [] c = "S" -> "s"
      [] c = "T" -> "t"
      [] c = "U" -> "u"
      [] c = "V" -> "v"
      [] c = "W" -> "w"
      [] c = "X" -> "x"
      [] c = "Y" -> "y"
      [] c = "Z" -> "z"
      [] OTHER -> c

\* str.lower()
Lower(s) == [i \in 1..Len(s) |-> LowerChar(s[i])]

\* Python's s < t on strings: lexicographic by code point
RECURSIVE StrLess(_, _)
StrLess(s, t) ==
    IF t = <<>> THEN FALSE
    ELSE IF s = <<>> THEN TRUE
    ELSE IF s[1] = t[1] THEN StrLess(Tail(s), Tail(t))
    ELSE Ord(s[1]) < Ord(t[1])

\* s.endswith(t)
EndsWith(s, t) ==
    /\ Len(t) <= Len(s)
    /\ SubSeq(s, Len(s) - Len(t) + 1, Len(s)) = t

-----------------------------------------------------------------------------
(* _collect_files and process_folder *)

\* The paths that may lie below input_folder (relative to it).
PathBHtml  == <<"B", ".", "h", "t", "m", "l">>
PathaHtml  == <<"a", ".", "h", "t", "m", "l">>
PathAHtml  == <<"A", ".", "h", "t", "m", "l">>
PathaXhtml == <<"a", ".", "x", "h", "t", "m", "l">>
PathSub    == <<"d", "/", "a", ".", "h", "t", "m", "l">>
PathTxt    == <<"c", ".", "t", "x", "t">>
PathUpper  == <<"e", ".", "H", "T", "M", "L">>

AllPaths == {PathBHtml, PathaHtml, PathAHtml, PathaXhtml, PathSub, PathTxt,
             PathUpper}

ExtHtml  == <<".", "h", "t", "m", "l">>
ExtXhtml == <<".", "x", "h", "t", "m", "l">>

\* Path.name: the part after the last "/"
RECURSIVE PathName(_)
PathName(p) ==
    IF \E i \in 1..Len(p) : p[i] = "/"
    THEN PathName(Tail(p))
    ELSE p

\* (rglob("*") would yield every path.)
GlobEveryPath(p, ext, sensitive) == TRUE

\* Whether rglob("*" + ext) yields p: the name ends with ext, compared the
\* way the platform compares file names.
GlobMatches(p, ext, sensitive) ==
    IF sensitive THEN EndsWith(PathName(p), ext)
                 ELSE EndsWith(Lower(PathName(p)), ext)

\* The orders in which rglob may yield the set S (the directory order).
Orders(S) ==
    {o \in [1..Cardinality(S) -> S] :
        \A i, j \in 1..Cardinality(S) : i # j => o[i] # o[j]}

\* sorted(seq, key=lambda p: str(p).lower()): a stable insertion sort
RECURSIVE InsertByKey(_, _)
InsertByKey(sorted, p) ==
    IF sorted = <<>> THEN <<p>>
    ELSE IF StrLess(Lower(p), Lower(sorted[1]))
         THEN <<p>> \o sorted
         ELSE <<sorted[1]>> \o InsertByKey(Tail(sorted), p)

RECURSIVE SortedByLower(_)
SortedByLower(seq) ==
    IF seq = <<>> THEN <<>>
    ELSE InsertByKey(SortedByLower(SubSeq(seq, 1, Len(seq) - 1)), seq[Len(seq)])

\* The report row process_file returns for a file.
Row(p) == [input_file |-> p]

\* process_folder up to the loop: files = _collect_files(input_folder),
\* total = len(files), and the early return when nothing matched.
CollectFiles ==
    /\ pc = "collect"
    /\ \E ox \in Orders({p \in disk : GlobMatches(p, ExtXhtml, case_sensitive)}),
          oh \in Orders({p \in disk : GlobMatches(p, ExtHtml, case_sensitive)}) :
          /\ files' = SortedByLower(ox \o oh)
          /\ total' = Len(ox) + Len(oh)
          /\ IF Len(ox) + Len(oh) = 0
             THEN pc' = "done" /\ report_path' = "None"
             ELSE pc' = "starting" /\ report_path' = report_path
    /\ idx' = 1
    /\ UNCHANGED <<disk, case_sensitive, has_cb, rows, calls>>

\* progress_callback(idx-1, total, "Starting", fp.name); what the callback
\* raises is swallowed.
\* (the index of the file rather than the count of files done)
StartingArgsOffByOne(i, n, p) == <<i, n, "Starting", PathName(p)>>

StartingArgs(i, n, p) == <<i - 1, n, "Starting", PathName(p)>>

CallStarting ==
    /\ pc = "starting"
    /\ calls' = IF has_cb
                THEN Append(calls, StartingArgs(idx, total, files[idx]))
                ELSE calls
    /\ pc' = "process"
    /\ UNCHANGED <<disk, case_sensitive, has_cb, files, total, idx, rows,
                   report_path>>

\* info = process_file(...); rows.append(info)
ProcessFileReturns ==
    /\ pc = "process"
    /\ rows' = Append(rows, Row(files[idx]))
    /\ pc' = "processed"
    /\ UNCHANGED <<disk, case_sensitive, has_cb, files, total, idx, calls,
                   report_path>>

\* process_file raises (output_folder.mkdir or the writes fail): nothing in
\* process_folder catches it.
ProcessFileRaises ==
    /\ pc = "process"
    /\ pc' = "raised"
    /\ UNCHANGED <<disk, case_sensitive, has_cb, files, total, idx, rows,
                   calls, report_path>>

\* progress_callback(idx, total, "Processed", fp.name), then the next file
CallProcessed ==
    /\ pc = "processed"
    /\ calls' = IF has_cb
                THEN Append(calls, <<idx, total, "Processed", PathName(files[idx])>>)
                ELSE calls
    /\ IF idx < total
       THEN idx' = idx + 1 /\ pc' = "starting"
       ELSE idx' = idx /\ pc' = "report"
    /\ UNCHANGED <<disk, case_sensitive, has_cb, files, total, rows,
                   report_path>>

\* The Excel report: written, or report_path = None when writing raises.
WriteReport ==
    /\ pc = "report"
    /\ \E r \in {"reading_report.xlsx", "None"} : report_path' = r
    /\ pc' = "done"
    /\ UNCHANGED <<disk, case_sensitive, has_cb, files, total, idx, rows,
                   calls>>

\* The repair passes are not running.
IdleFile ==
    /\ stage = "idle"
    /\ source_stream = <<>>
    /\ html_fragment = <<>>
    /\ merged_stream = <<>>
    /\ footer_html = <<>>
    /\ page_num = "None"
    /\ h1_candidates = <<>>
    /\ chosen_h1 = "None"
    /\ text_content = <<>>

\* The outcomes of a detector that is no block
NoBlock   == [kind |-> "None"]
NameError == [kind |-> "NameError"]

\* No table detection is under way.
IdleTable ==
    /\ tpc = "idle"
    /\ tokens = <<>>
    /\ y_tol = 0
    /\ min_rows = 0
    /\ grouped = <<>>
    /\ regrouped = <<>>
    /\ comparison = NoBlock
    /\ fact = NoBlock
    /\ block = NoBlock
    /\ rendered = NoBlock
    /\ blocks = <<>>
    /\ chosen = <<>>
    /\ page_html = <<>>

\* patch_source_file is not being called.
IdlePatch ==
    /\ ppc = "idle"
    /\ original_file = <<>>
    /\ previous_file = <<>>
    /\ source_file = <<>>
    /\ insertion_fragment = <<>>
    /\ patch_soup = <<>>
    /\ patched = FALSE
    /\ patch_note = [kind |-> "none"]
    /\ patch_calls = 0
    /\ patch_successes = 0
    /\ file_encoding = "utf-8"
    /\ read_attempts = <<>>

\* No output files, no return value
NoFiles == [kind |-> "None"]
NoRow   == [kind |-> "None"]

\* process_file is not running.
IdleProc ==
    /\ fpc = "idle"
    /\ html_src = <<>>
    /\ feature_titles = <<>>
    /\ structured_dom = <<>>
    /\ ptable_stream = <<>>
    /\ use_dom_tables_only = FALSE
    /\ patch_enabled = FALSE
    /\ outputs = NoFiles
    /\ info = NoRow

\* The job ids uuid4 may draw
JobIds == {"job-a", "job-b"}

\* The locals of a worker that has not run
NoFrame == [idx |-> 0, total |-> 0, message |-> "None", resume |-> "None"]

NoResponse == [route |-> "None", job |-> "None", code |-> 0, done |-> FALSE]

\* No upload has been made.
IdleJobs ==
    /\ JOBS = <<>>
    /\ wpc = [j \in JobIds |-> "absent"]
    /\ wframe = [j \in JobIds |-> NoFrame]
    /\ archives = {}
    /\ response = NoResponse

\* No two names of a case-insensitive file system differ only in case.
DiskPossible(d, sensitive) ==
    sensitive \/ \A p, q \in d : Lower(p) = Lower(q) => p = q

InitFolder ==
    /\ IdleJobs
    /\ IdleFile
    /\ IdleTable
    /\ IdlePatch
    /\ IdleProc
    /\ disk \in SUBSET AllPaths
    /\ case_sensitive \in BOOLEAN
    /\ DiskPossible(disk, case_sensitive)
    /\ has_cb \in BOOLEAN
    /\ pc = "collect"
    /\ files = <<>>
    /\ total = 0
    /\ idx = 0
    /\ rows = <<>>
    /\ calls = <<>>
    /\ report_path = "unset"

NextFolder ==
    /\ \/ CollectFiles
       \/ CallStarting
       \/ ProcessFileReturns
       \/ ProcessFileRaises
       \/ CallProcessed
       \/ WriteReport
    /\ UNCHANGED notFolderVars

SpecFolder == InitFolder /\ [][NextFolder]_vars

-----------------------------------------------------------------------------
(* Properties of process_folder *)

Range(seq) == {seq[i] : i \in 1..Len(seq)}

IsPrefix(s, t) == Len(s) <= Len(t) /\ SubSeq(t, 1, Len(s)) = s

\* The callback sequence (0,n,"Starting",f1), (1,n,"Processed",f1), ...,
\* (n,n,"Processed",fn) for the file list fs.
ExpectedCalls(fs) ==
    [i \in 1..(2 * Len(fs)) |->
        IF i % 2 = 1
        THEN <<(i - 1) \div 2, Len(fs), "Starting", PathName(fs[(i + 1) \div 2])>>
        ELSE <<i \div 2, Len(fs), "Processed", PathName(fs[i \div 2])>>]

\* fs is in case-insensitive path order
CaseInsensitiveSorted(fs) ==
    \A i, j \in 1..Len(fs) : i < j => ~ StrLess(Lower(fs[j]), Lower(fs[i]))

\* The name has the extension .html or .xhtml (in any letter case).
HasHtmlExtension(p) ==
    \/ EndsWith(Lower(PathName(p)), ExtHtml)
    \/ EndsWith(Lower(PathName(p)), ExtXhtml)

C2_NonMatchingExcluded ==
    /\ \A p \in disk :
          ~ HasHtmlExtension(p) =>
              /\ p \notin Range(files)
              /\ Row(p) \notin Range(rows)
              /\ \A i \in 1..Len(calls) : calls[i][4] # PathName(p)
    /\ total <= Cardinality({p \in disk : HasHtmlExtension(p)})
    /\ (pc # "collect" /\ ~ \E p \in disk : HasHtmlExtension(p)) =>
          /\ pc = "done"
          /\ calls = <<>>
          /\ rows = <<>>
          /\ report_path = "None"

\* C2's case: process_folder has returned for a folder that holds only
\* files of other extensions.
C2_Witness ==
    /\ pc = "done"
    /\ has_cb
    /\ PathTxt \in disk
    /\ total = 0

-----------------------------------------------------------------------------
(* Text helpers (Python str and re) *)

None == "None"

AsciiDigit == {"0", "1", "2", "3", "4", "5", "6", "7", "8", "9"}

\* ARABIC-INDIC DIGIT THREE, one character: a decimal digit outside ASCII
ArabicThree == "U+0663"

\* What str.isdigit and \d of a str pattern accept.
Digit == AsciiDigit \cup {ArabicThree}

IsSpace(c) == c \in {" ", "\n", "\t"}

RECURSIVE LStrip(_)
LStrip(s) == IF s # <<>> /\ IsSpace(s[1]) THEN LStrip(Tail(s)) ELSE s

RECURSIVE RStrip(_)
RStrip(s) ==
    IF s # <<>> /\ IsSpace(s[Len(s)]) THEN RStrip(SubSeq(s, 1, Len(s) - 1)) ELSE s

\* str.strip()
Strip(s) == RStrip(LStrip(s))

\* str.isdigit()
IsDigitStr(s) == s # <<>> /\ \A i \in 1..Len(s) : s[i] \in Digit

\* s.lstrip("0")
RECURSIVE LStripZeros(_)
LStripZeros(s) == IF s # <<>> /\ s[1] = "0" THEN LStripZeros(Tail(s)) ELSE s

\* The longest run of digits that ends s.
RECURSIVE TrailingDigits(_)
TrailingDigits(s) ==
    IF s # <<>> /\ s[Len(s)] \in Digit
    THEN Append(TrailingDigits(SubSeq(s, 1, Len(s) - 1)), s[Len(s)])
    ELSE <<>>

\* s without the non-digits that end it.
RECURSIVE DropTrailingNonDigits(_)
DropTrailingNonDigits(s) ==
    IF s # <<>> /\ s[Len(s)] \notin Digit
    THEN DropTrailingNonDigits(SubSeq(s, 1, Len(s) - 1))
    ELSE s

\* re.findall(r"(\d+)", s)[-1], or <<>> when s holds no digit
LastDigitRun(s) == TrailingDigits(DropTrailingNonDigits(s))

-----------------------------------------------------------------------------
(* Document trees (BeautifulSoup with html.parser) *)

\* NavigableString
Txt(s) == [tag |-> "#text", cls |-> "", text |-> s, kids |-> <<>>,
           type |-> "", start |-> -1, attr_id |-> "", aria_hidden |-> "",
           src |-> <<>>, alt |-> <<>>, id |-> <<>>]

\* Comment
Cmt(s) == [tag |-> "#comment", cls |-> "", text |-> s, kids |-> <<>>,
           type |-> "", start |-> -1, attr_id |-> "", aria_hidden |-> "",
           src |-> <<>>, alt |-> <<>>, id |-> <<>>]

\* Tag; start is the start attribute of a list, -1 when it has none; attr_id
\* and aria_hidden are the id and aria-hidden attributes, "" when it has none;
\* src and alt are those of an img
El(tag, cls, kids) == [tag |-> tag, cls |-> cls, text |-> <<>>, kids |-> kids,
                       type |-> "", start |-> -1, attr_id |-> "",
                       aria_hidden |-> "", src |-> <<>>, alt |-> <<>>, id |-> <<>>]

\* <p>s</p>
P(s) == El("p", "", IF s = <<>> THEN <<>> ELSE <<Txt(s)>>)

IsTag(n) == n.tag \notin {"#text", "#comment"}

\* BeautifulSoup(html, "html.parser").contents: every node gets an identity,
\* its path in the parsed tree.
RECURSIVE Soup(_, _)
Soup(kids, prefix) ==
    [i \in 1..Len(kids) |->
        [kids[i] EXCEPT !.id = prefix \o <<i>>,
                        !.kids = Soup(kids[i].kids, prefix \o <<i>>)]]

\* Adjacent strings are one string in the markup; an empty string is none.
RECURSIVE JoinStrings(_)
JoinStrings(kids) ==
    IF kids = <<>> THEN <<>>
    ELSE IF kids[1].tag = "#text" /\ kids[1].text = <<>> THEN JoinStrings(Tail(kids))
    ELSE IF Len(kids) >= 2 /\ kids[1].tag = "#text" /\ kids[2].tag = "#text"
         THEN JoinStrings(<<Txt(kids[1].text \o kids[2].text)>> \o SubSeq(kids, 3, Len(kids)))
    ELSE <<kids[1]>> \o JoinStrings(Tail(kids))

\* str(soup), read back as a tree: the identities are gone and adjacent
\* strings have become one.
RECURSIVE ToHtml(_)
ToHtml(kids) ==
    LET joined == JoinStrings(kids)
    IN  [i \in 1..Len(joined) |->
            [joined[i] EXCEPT !.id = <<>>, !.kids = ToHtml(joined[i].kids)]]

\* The nodes below kids in document order (Tag.descendants).
RECURSIVE Descendants(_)
Descendants(kids) ==
    IF kids = <<>> THEN <<>>
    ELSE <<kids[1]>> \o Descendants(kids[1].kids) \o Descendants(Tail(kids))

\* find_all(tag) below kids
FindAll(kids, tag) == SelectSeq(Descendants(kids), LAMBDA n : n.tag = tag)

\* find_all("div", class_=cls) below kids
FindAllClass(kids, tag, cls) ==
    SelectSeq(Descendants(kids), LAMBDA n : n.tag = tag /\ n.cls = cls)

\* The strings below a node, in document order (comments are no text).
Strings(n) ==
    IF n.tag = "#text" THEN <<n.text>>
    ELSE IF n.tag = "#comment" THEN <<>>
    ELSE LET ds == SelectSeq(Descendants(n.kids), LAMBDA d : d.tag = "#text")
         IN  [i \in 1..Len(ds) |-> ds[i].text]

RECURSIVE Concat(_)
Concat(ss) == IF ss = <<>> THEN <<>> ELSE ss[1] \o Concat(Tail(ss))

\* sep.join(ss)
RECURSIVE Join(_, _)
Join(ss, sep) ==
    IF ss = <<>> THEN <<>>
    ELSE IF Len(ss) = 1 THEN ss[1]
    ELSE ss[1] \o sep \o Join(Tail(ss), sep)

\* el.get_text()
GetText(n) == Concat(Strings(n))

\* The stripped, non-empty strings below a node.
StrippedStrings(n) ==
    LET st == [i \in 1..Len(Strings(n)) |-> Strip(Strings(n)[i])]
    IN  SelectSeq(st, LAMBDA t : t # <<>>)

\* el.get_text(strip=True)
GetTextStrip(n) == Concat(StrippedStrings(n))

\* el.get_text(" ", strip=True)
GetTextSep(n) == Join(StrippedStrings(n), <<" ">>)

\* The node with identity id below kids.
NodeById(kids, id) ==
    LET ds == Descendants(kids)
    IN  ds[CHOOSE i \in 1..Len(ds) : ds[i].id = id]

HasNode(kids, id) == \E i \in 1..Len(Descendants(kids)) : Descendants(kids)[i].id = id

\* The siblings that follow the node with identity id (next_sibling, and so
\* on), or <<>> when the node is not below kids.
RECURSIVE SiblingsAfter(_, _)
SiblingsAfter(kids, id) ==
    IF \E i \in 1..Len(kids) : kids[i].id = id
    THEN LET i == CHOOSE k \in 1..Len(kids) : kids[k].id = id
         IN  SubSeq(kids, i + 1, Len(kids))
    ELSE IF \E i \in 1..Len(kids) : HasNode(kids[i].kids, id)
    THEN LET i == CHOOSE k \in 1..Len(kids) : HasNode(kids[k].kids, id)
         IN  SiblingsAfter(kids[i].kids, id)
    ELSE <<>>

\* The tree without the node with identity id (extract, decompose).
RECURSIVE RemoveNode(_, _)
RemoveNode(kids, id) ==
    LET kept == SelectSeq(kids, LAMBDA n : n.id # id)
    IN  [i \in 1..Len(kept) |->
            [kept[i] EXCEPT !.kids = RemoveNode(kept[i].kids, id)]]

\* The tree with the children of the node with identity id replaced.
RECURSIVE SetKids(_, _, _)
SetKids(kids, id, newKids) ==
    [i \in 1..Len(kids) |->
        IF kids[i].id = id
        THEN [kids[i] EXCEPT !.kids = newKids]
        ELSE [kids[i] EXCEPT !.kids = SetKids(kids[i].kids, id, newKids)]]

\* _is_ignorable_media_node
IsIgnorableMediaNode(n) ==
    IF n.tag = "#comment" THEN TRUE
    ELSE IF n.tag = "#text" THEN Strip(n.text) = <<>>
    ELSE IF n.tag \in {"figure", "img", "picture", "svg", "br", "hr"} THEN TRUE
    ELSE IF n.tag \in {"div", "section", "span"}
         THEN /\ \E i \in 1..Len(Descendants(n.kids)) :
                    Descendants(n.kids)[i].tag \in {"figure", "img", "picture", "svg"}
              /\ FindAll(n.kids, "p") = <<>>
    ELSE FALSE

\* All fragments of at most maxLen top-level nodes drawn from nodes.
FragmentsOf(nodes, maxLen) == UNION {[1..n -> nodes] : n \in 0..maxLen}

\* process_file is about to run the pass `first` on one of the fragments,
\* called with one of the lists of title candidates.
StartAt(first, fragments, candidates) ==
    /\ stage = first
    /\ source_stream \in fragments
    /\ merged_stream = ToHtml(source_stream)
    /\ h1_candidates \in candidates
    /\ html_fragment = <<>>
    /\ footer_html = <<>>
    /\ page_num = None
    /\ chosen_h1 = None
    /\ text_content = <<>>

-----------------------------------------------------------------------------
(* move_page_number_to_footer *)

PnClass == "epub-page-number"

\* <div class="epub-page-number">s</div>
PnDiv(s) == El("div", PnClass, <<Txt(s)>>)

\* (s.lstrip("0") alone: an all-zero number becomes the empty string)
NormalizePageNoFallback(digits) == LStripZeros(digits)

\* s.lstrip("0") or "0"
NormalizePage(digits) ==
    IF LStripZeros(digits) = <<>> THEN <<"0">> ELSE LStripZeros(digits)

\* The tree without the given nodes.
RECURSIVE RemoveAll(_, _)
RemoveAll(kids, nodes) ==
    IF nodes = <<>> THEN kids
    ELSE RemoveAll(RemoveNode(kids, nodes[1].id), Tail(nodes))

\* Lines 316-323: the last page-number container's last digit run; every
\* container is decomposed.
ContainerStep(soup) ==
    LET pn_divs == FindAllClass(soup, "div", PnClass)
        nums == LastDigitRun(GetTextSep(pn_divs[Len(pn_divs)]))
    IN  IF pn_divs = <<>>
        THEN [soup |-> soup, page_num |-> None]
        ELSE [soup |-> RemoveAll(soup, pn_divs),
              page_num |-> IF nums # <<>> THEN NormalizePage(nums) ELSE None]

\* Lines 328-345: every sibling after p is a page-number container, an
\* ignorable media node or a blank string.
IsTrailing(soup, p) ==
    LET sibs == SiblingsAfter(soup, p.id)
    IN  \A i \in 1..Len(sibs) :
            IF IsTag(sibs[i])
            THEN \/ sibs[i].tag = "div" /\ sibs[i].cls = PnClass
                 \/ IsIgnorableMediaNode(sibs[i])
            ELSE Strip(sibs[i].text) = <<>>

\* (the paragraph is consumed only when no page number was found before)
OnTrailingDigitUnlessFound(soup, p, t, page) ==
    IF page = None
    THEN [soup |-> RemoveNode(soup, p.id), page_num |-> NormalizePage(t)]
    ELSE [soup |-> soup, page_num |-> page]

\* Lines 346-350: the paragraph supplies the number if none was found, and
\* is decomposed either way.
OnTrailingDigit(soup, p, t, page) ==
    [soup |-> RemoveNode(soup, p.id),
     page_num |-> IF page = None THEN NormalizePage(t) ELSE page]

\* Lines 325-350: for p in reversed(soup.find_all("p")), from ps[k] down.
RECURSIVE ScanTrailingDigit(_, _, _, _)
ScanTrailingDigit(soup, ps, k, page) ==
    IF k = 0 THEN [soup |-> soup, page_num |-> page]
    ELSE LET t == GetTextStrip(ps[k])
         IN  IF IsDigitStr(t) /\ IsTrailing(soup, ps[k])
             THEN OnTrailingDigit(soup, ps[k], t, page)
             ELSE ScanTrailingDigit(soup, ps, k - 1, page)

TrailingDigitStep(soup, page) ==
    ScanTrailingDigit(soup, FindAll(soup, "p"), Len(FindAll(soup, "p")), page)

\* The most digits the suffix pattern \s(\d{1,6})\s*$ takes.
SuffixMaxDigits == 6

\* re.search(r"\s(\d{1,6})\s*$", raw) matches
SuffixMatches(raw) ==
    LET r == RStrip(raw)
        d == TrailingDigits(r)
    IN  /\ Len(d) >= 1
        /\ Len(d) <= SuffixMaxDigits
        /\ Len(r) > Len(d)
        /\ IsSpace(r[Len(r) - Len(d)])

\* (the digit suffix is stripped only when it supplies the number)
InlineSuffixUnlessFound(soup, page) ==
    LET all_p == FindAll(soup, "p")
        last_p == all_p[Len(all_p)]
        r == RStrip(GetText(last_p))
        digits == TrailingDigits(r)
    IN  IF all_p # <<>> /\ SuffixMatches(GetText(last_p)) /\ page = None
        THEN [soup |-> SetKids(soup, last_p.id,
                               <<Txt(SubSeq(r, 1, Len(r) - Len(digits) - 1))>>),
              page_num |-> NormalizePage(digits)]
        ELSE [soup |-> soup, page_num |-> page]

\* Lines 352-363: the digit suffix of the last paragraph is stripped from
\* it, and supplies the number if none was found.
InlineSuffixStep(soup, page) ==
    LET all_p == FindAll(soup, "p")
        last_p == all_p[Len(all_p)]
        raw == GetText(last_p)
        r == RStrip(raw)
        digits == TrailingDigits(r)
        new_text == SubSeq(r, 1, Len(r) - Len(digits) - 1)
    IN  IF all_p # <<>> /\ SuffixMatches(raw)
        THEN [soup |-> SetKids(soup, last_p.id, <<Txt(new_text)>>),
              page_num |-> IF page = None THEN NormalizePage(digits) ELSE page]
        ELSE [soup |-> soup, page_num |-> page]

PageNumberLabel ==
    <<"P", "a", "g", "e", " ", "N", "u", "m", "b", "e", "r", " ">>

\* The value int() gives a decimal digit, as an ASCII digit
DecimalValue(c) == IF c = ArabicThree THEN "3" ELSE c

\* str(int(page_num)): the decimal digits of any script are read by their
\* value and written in ASCII, without leading zeros
StrInt(digits) ==
    LET ascii == [i \in 1..Len(digits) |-> DecimalValue(digits[i])]
    IN  IF LStripZeros(ascii) = <<>> THEN <<"0">> ELSE LStripZeros(ascii)

\* Lines 365-375: the footer fragment, or "" without a page number.
FooterFor(page) ==
    IF page = None THEN <<>>
    ELSE <<El("footer", "",
              <<El("p", "text-hidden", <<Txt(PageNumberLabel \o StrInt(page))>>)>>)>>

\* move_page_number_to_footer(html_fragment)
    \* -> (str(soup), footer_html, page_num)
MovePageNumber(html) ==
    LET s1 == ContainerStep(Soup(html, <<>>))
        s2 == TrailingDigitStep(s1.soup, s1.page_num)
        s3 == InlineSuffixStep(s2.soup, s2.page_num)
    IN  [html |-> ToHtml(s3.soup),
         footer_html |-> FooterFor(s3.page_num),
         page_num |-> s3.page_num]

\* process_file, line 1165
MovePageNumberToFooter ==
    /\ stage = "footer"
    /\ LET r == MovePageNumber(merged_stream)
       IN  /\ merged_stream' = r.html
           /\ footer_html' = r.footer_html
           /\ page_num' = r.page_num
    /\ html_fragment' = merged_stream
    /\ stage' = "h1"
    /\ UNCHANGED <<source_stream, h1_candidates, chosen_h1, text_content>>

\* Sample texts
TextBody    == <<"a", "b">>
TextNine    == <<"9">>
TextZeros7  == <<"0", "0", "7">>
TextZeros   == <<"0", "0", "0">>
TextFive    == <<"5">>
TextSuffix  == <<"a", " ", "1", "2">>
TextSuffix0 == <<"a", " ", "0", "0">>
TextThree   == <<"3">>
TextBlank   == <<" ">>
TextTitle   == <<"T">>

Figure == El("figure", "", <<El("img", "", <<>>)>>)

\* The top-level nodes of the fragments move_page_number_to_footer is run on.
FooterNodes ==
    { P(TextBody), P(TextNine), P(TextZeros7), P(TextZeros), P(TextSuffix),
      P(TextSuffix0), PnDiv(TextFive), PnDiv(TextZeros7), PnDiv(TextBody),
      El("aside", "", <<P(TextThree)>>), Txt(TextBlank), Figure,
      El("h2", "", <<Txt(TextTitle)>>), Cmt(TextBody) }

MaxFooterNodes == 3

\* The rest of the model is idle.
IdleFolder ==
    /\ disk = {}
    /\ case_sensitive = TRUE
    /\ has_cb = FALSE
    /\ pc = "idle"
    /\ files = <<>>
    /\ total = 0
    /\ idx = 0
    /\ rows = <<>>
    /\ calls = <<>>
    /\ report_path = "unset"

InitFooter ==
    /\ IdleJobs
    /\ IdleFolder
    /\ IdleTable
    /\ IdlePatch
    /\ IdleProc
    /\ StartAt("footer", FragmentsOf(FooterNodes, MaxFooterNodes), {<<>>})

NextFooter == MovePageNumberToFooter /\ UNCHANGED notFileVars

SpecFooter == InitFooter /\ [][NextFooter]_vars

-----------------------------------------------------------------------------
(* Properties of move_page_number_to_footer *)

IsPathPrefix(a, b) == Len(a) <= Len(b) /\ SubSeq(b, 1, Len(a)) = a

\* The texts of the paragraphs below kids, in document order.
ParagraphTexts(kids) ==
    [i \in 1..Len(FindAll(kids, "p")) |-> GetText(FindAll(kids, "p")[i])]

\* The paragraphs of a parsed tree that lie in no page-number container.
ParagraphsOutsideContainers(soup) ==
    SelectSeq(FindAll(soup, "p"),
              LAMBDA p : \A i \in 1..Len(FindAllClass(soup, "div", PnClass)) :
                            ~ IsPathPrefix(FindAllClass(soup, "div", PnClass)[i].id, p.id))

\* A digit-only paragraph followed, among its siblings, only by blank
\* strings, media nodes and page-number containers.
IsTrailingDigitParagraph(soup, p) ==
    /\ IsDigitStr(GetTextStrip(p))
    /\ \A i \in 1..Len(SiblingsAfter(soup, p.id)) :
          LET sib == SiblingsAfter(soup, p.id)[i]
          IN  \/ sib.tag = "#text" /\ Strip(sib.text) = <<>>
              \/ sib.tag = "#comment" /\ Strip(sib.text) = <<>>
              \/ IsTag(sib) /\ IsIgnorableMediaNode(sib)
              \/ sib.tag = "div" /\ sib.cls = PnClass

\* v is the number written run, without its leading zeros ("0" for zeros).
IsZeroStripped(run, v) ==
    /\ run # <<>>
    /\ \E k \in 0..Len(run) :
          /\ \A i \in 1..k : run[i] = "0"
          /\ \/ k < Len(run) /\ run[k + 1] # "0" /\ v = SubSeq(run, k + 1, Len(run))
             \/ k = Len(run) /\ v = <<"0">>

\* s without its i-th element
WithoutIndex(s, i) == SubSeq(s, 1, i - 1) \o SubSeq(s, i + 1, Len(s))

\* C3: with a page-number container holding a number and a trailing
\* digit-only paragraph, the reported number is the container's, the
\* trailing digit-only paragraph (the last one in document order) is removed
\* all the same, and so is every page-number container: the paragraphs left
\* are the others, in order, unchanged but for the digit suffix stripped
\* from the last one.
C3_ContainerWins ==
    stage = "h1" =>
        LET soup == Soup(html_fragment, <<>>)
            divs == FindAllClass(soup, "div", PnClass)
            ps == ParagraphsOutsideContainers(soup)
            cands == {i \in 1..Len(ps) : IsTrailingDigitParagraph(soup, ps[i])}
            c == CHOOSE i \in cands : \A j \in cands : j <= i
            left == WithoutIndex([i \in 1..Len(ps) |-> GetText(ps[i])], c)
            now == ParagraphTexts(merged_stream)
        IN  (/\ divs # <<>>
             /\ LastDigitRun(GetTextSep(divs[Len(divs)])) # <<>>
             /\ cands # {}) =>
                /\ IsZeroStripped(LastDigitRun(GetTextSep(divs[Len(divs)])), page_num)
                /\ FindAllClass(merged_stream, "div", PnClass) = <<>>
                /\ Len(now) = Len(left)
                /\ \A k \in 1..Len(now) :
                      IF k < Len(now) THEN now[k] = left[k]
                                      ELSE IsPrefix(now[k], left[k])

\* C3's case: container "5" and trailing paragraph "9": the page number
\* is "5" and only the body paragraph is left.
C3_Witness ==
    /\ stage = "h1"
    /\ html_fragment = <<P(TextBody), PnDiv(TextFive), P(TextNine)>>
    /\ page_num = <<"5">>
    /\ merged_stream = <<P(TextBody)>>

\* C4: whichever source supplies it, the reported page number is a digit
\* string of the fragment with its leading zeros stripped, "0" when all
\* of it is zeros: never empty, and starting with "0" only when it is "0".
C4_LeadingZerosStripped ==
    (stage = "h1" /\ page_num # None) =>
        /\ page_num # <<>>
        /\ IsDigitStr(page_num)
        /\ page_num[1] = "0" => page_num = <<"0">>
        /\ \E i \in 1..Len(Descendants(Soup(html_fragment, <<>>))) :
              LET n == Descendants(Soup(html_fragment, <<>>))[i]
              IN  IsTag(n) /\ IsZeroStripped(LastDigitRun(GetTextSep(n)), page_num)

\* C4's case: the trailing paragraph "007" is reported as "7".
C4_Witness ==
    /\ stage = "h1"
    /\ html_fragment = <<P(TextBody), P(TextZeros7)>>
    /\ page_num = <<"7">>
    /\ footer_html # <<>>

\* raw is head, one whitespace character, run and trailing whitespace,
\* run being 1 to 6 digits.
SplitsAtSuffix(raw, head, run) ==
    /\ Len(run) \in 1..SuffixMaxDigits
    /\ IsDigitStr(run)
    /\ Len(raw) >= Len(head) + 1 + Len(run)
    /\ SubSeq(raw, 1, Len(head)) = head
    /\ IsSpace(raw[Len(head) + 1])
    /\ SubSeq(raw, Len(head) + 2, Len(head) + 1 + Len(run)) = run
    /\ \A i \in (Len(head) + 2 + Len(run))..Len(raw) : IsSpace(raw[i])

\* The digit suffixes of raw: at most one <<head, run>>.
SuffixesOf(raw) ==
    LET cuts == {hk \in (0..Len(raw)) \X (1..SuffixMaxDigits) :
                    /\ hk[1] + 1 + hk[2] <= Len(raw)
                    /\ SplitsAtSuffix(raw, SubSeq(raw, 1, hk[1]),
                                      SubSeq(raw, hk[1] + 2, hk[1] + 1 + hk[2]))}
    IN  {<<SubSeq(raw, 1, hk[1]), SubSeq(raw, hk[1] + 2, hk[1] + 1 + hk[2])>> :
            hk \in cuts}

\* C23: the digit suffix (whitespace, then 1 to 6 digits) of the last
\* paragraph left after the containers and the trailing digit-only paragraph
\* are removed is stripped from it whether or not a page number was found
\* before, and the other paragraphs are left as they were; the reported
\* number is the container's if it holds one, else the trailing digit-only
\* paragraph's, else the suffix's, else none.
C23_SuffixStrippedAndPriority ==
    stage = "h1" =>
        LET soup == Soup(html_fragment, <<>>)
            divs == FindAllClass(soup, "div", PnClass)
            ps == ParagraphsOutsideContainers(soup)
            texts == [i \in 1..Len(ps) |-> GetText(ps[i])]
            cands == {i \in 1..Len(ps) : IsTrailingDigitParagraph(soup, ps[i])}
            c == CHOOSE i \in cands : \A j \in cands : j <= i
            left == IF cands = {} THEN texts ELSE WithoutIndex(texts, c)
            sfx == IF left = <<>> THEN {} ELSE SuffixesOf(left[Len(left)])
            now == ParagraphTexts(merged_stream)
            container == IF divs = <<>> THEN <<>>
                         ELSE LastDigitRun(GetTextSep(divs[Len(divs)]))
        IN  /\ Len(now) = Len(left)
            /\ \A k \in 1..Len(now) :
                  IF k = Len(now) /\ sfx # {}
                  THEN \A hr \in sfx : now[k] = hr[1]
                  ELSE now[k] = left[k]
            /\ IF container # <<>> THEN IsZeroStripped(container, page_num)
               ELSE IF cands # {}
                    THEN IsZeroStripped(GetTextStrip(ps[c]), page_num)
               ELSE IF sfx # {}
                    THEN \A hr \in sfx : IsZeroStripped(hr[2], page_num)
               ELSE page_num = None

\* C23's case: container "5", paragraph "a 12" and trailing paragraph "9":
\* the number is "5", the paragraph "9" is removed and the suffix " 12" is
\* stripped from the paragraph that became the last one.
C23_Witness ==
    /\ stage = "h1"
    /\ html_fragment = <<PnDiv(TextFive), P(TextSuffix), P(TextNine)>>
    /\ page_num = <<"5">>
    /\ merged_stream = <<P(<<"a">>)>>

-----------------------------------------------------------------------------
(* merge_outside_p_after_aside *)

\* (any sentence-ending mark counts)
EndsWithTerminalPunctuation(el) ==
    LET txt == GetTextStrip(el)
    IN  txt # <<>> /\ txt[Len(txt)] \in {".", "!", "?"}

\* ends_with_dot: bool(txt) and txt.endswith(".")
EndsWithDot(el) ==
    LET txt == GetTextStrip(el)
    IN  txt # <<>> /\ txt[Len(txt)] = "."

\* The first of sibs that _is_ignorable_media_node does not skip, as a
\* one-element sequence, or <<>> when the siblings run out.
RECURSIVE SkipIgnorable(_)
SkipIgnorable(sibs) ==
    IF sibs = <<>> THEN <<>>
    ELSE IF IsIgnorableMediaNode(sibs[1]) THEN SkipIgnorable(Tail(sibs))
    ELSE <<sibs[1]>>

\* current_text and not current_text.endswith((" ", "\n", "\t"))
NeedsSeparator(el) ==
    GetText(el) # <<>> /\ ~ IsSpace(GetText(el)[Len(GetText(el))])

\* Lines 50-55 (and 93-98): target takes a separating space and the
\* children of sib; sib leaves the tree.
SpliceInto(soup, target, sib) ==
    LET sep == IF NeedsSeparator(target) THEN <<Txt(<<" ">>)>> ELSE <<>>
    IN  RemoveNode(SetKids(soup, target.id, target.kids \o sep \o sib.kids), sib.id)

\* Lines 45-57: while not ends_with_dot(last_p).  A sibling that is a
\* string has name None, and None.lower() raises AttributeError.
RECURSIVE AbsorbAfterAside(_, _, _)
AbsorbAfterAside(soup, asideId, lastId) ==
    LET last_p == NodeById(soup, lastId)
        sib == SkipIgnorable(SiblingsAfter(soup, asideId))
    IN  IF EndsWithDot(last_p) THEN [soup |-> soup, raised |-> FALSE]
        ELSE IF sib = <<>> THEN [soup |-> soup, raised |-> FALSE]
        ELSE IF ~ IsTag(sib[1]) THEN [soup |-> soup, raised |-> TRUE]
        ELSE IF sib[1].tag = "p"
             THEN AbsorbAfterAside(SpliceInto(soup, last_p, sib[1]), asideId, lastId)
        ELSE [soup |-> soup, raised |-> FALSE]

\* Lines 39-57: for aside in soup.find_all("aside"), from asides[k] on.
RECURSIVE ForEachAside(_, _, _)
ForEachAside(soup, asides, k) ==
    IF k > Len(asides) THEN [soup |-> soup, raised |-> FALSE]
    ELSE LET p_tags == FindAll(NodeById(soup, asides[k].id).kids, "p")
             r == AbsorbAfterAside(soup, asides[k].id, p_tags[Len(p_tags)].id)
         IN  IF p_tags = <<>> THEN ForEachAside(soup, asides, k + 1)
             ELSE IF r.raised THEN r
             ELSE ForEachAside(r.soup, asides, k + 1)

\* merge_outside_p_after_aside(html_fragment) -> str(soup), or it raises
MergeOutsidePAfterAside(html) ==
    LET soup == Soup(html, <<>>)
        r == ForEachAside(soup, FindAll(soup, "aside"), 1)
    IN  [html |-> ToHtml(r.soup), raised |-> r.raised]

\* process_file, line 1162
MergeAside ==
    /\ stage = "aside"
    /\ LET r == MergeOutsidePAfterAside(merged_stream)
       IN  IF r.raised
           THEN stage' = "raised" /\ merged_stream' = merged_stream
           ELSE stage' = "lists" /\ merged_stream' = r.html
    /\ html_fragment' = merged_stream
    /\ UNCHANGED <<source_stream, footer_html, page_num, h1_candidates,
                   chosen_h1, text_content>>

\* Sample texts
TextBang   == <<"H", "i", "!">>
TextDot    == <<"O", "k", ".">>
TextOpen   == <<"N", "o">>
TextAsk    == <<"E", "h", "?">>
TextNext   == <<"n", "e">>
TextRaw    == <<"r", "w">>

Aside(kids) == El("aside", "", kids)

H2(s) == El("h2", "", <<Txt(s)>>)

\* The top-level nodes of the fragments merge_outside_p_after_aside is run on.
AsideNodes ==
    { Aside(<<H2(TextTitle), P(TextBang)>>), Aside(<<P(TextDot)>>),
      Aside(<<P(TextOpen)>>), Aside(<<P(TextAsk)>>),
      Aside(<<P(TextDot), P(TextOpen)>>), Aside(<<H2(TextTitle)>>),
      Aside(<<Aside(<<P(TextOpen)>>), P(TextDot)>>),
      P(TextNext), P(TextDot), Txt(TextBlank), Txt(TextRaw), Figure,
      H2(TextTitle) }

MaxAsideNodes == 3

InitAside ==
    /\ IdleJobs
    /\ IdleFolder
    /\ IdleTable
    /\ IdlePatch
    /\ IdleProc
    /\ StartAt("aside", FragmentsOf(AsideNodes, MaxAsideNodes), {<<>>})

NextAside == MergeAside /\ UNCHANGED notFileVars

SpecAside == InitAside /\ [][NextAside]_vars

-----------------------------------------------------------------------------
(* Properties of merge_outside_p_after_aside *)

\* The last paragraph below an aside; the aside has one.
LastParagraph(aside) == FindAll(aside.kids, "p")[Len(FindAll(aside.kids, "p"))]

\* The text of the paragraph that follows the node, ignorable siblings
\* skipped, as a one-element sequence; <<>> when no paragraph follows.
FollowingParagraph(soup, node) ==
    LET sib == SkipIgnorable(SiblingsAfter(soup, node.id))
    IN  IF sib # <<>> /\ sib[1].tag = "p" THEN <<GetText(sib[1])>> ELSE <<>>

\* The pass has run on html_fragment: for every aside that has a last
\* paragraph whose stripped text ends in one of marks and that holds no
\* other aside, the aside's last paragraph keeps its text and a paragraph
\* that followed the aside still follows it.
AsidesEndingInKeepSibling(marks) ==
    stage = "lists" =>
        LET before == Soup(html_fragment, <<>>)
            after == Soup(merged_stream, <<>>)
            asides == FindAll(before, "aside")
        IN  /\ Len(FindAll(after, "aside")) = Len(asides)
            /\ \A k \in 1..Len(asides) :
                  LET a == asides[k]
                      b == FindAll(after, "aside")[k]
                      txt == GetTextStrip(LastParagraph(a))
                  IN  (/\ FindAll(a.kids, "p") # <<>>
                       /\ FindAll(a.kids, "aside") = <<>>
                       /\ txt # <<>>
                       /\ txt[Len(txt)] \in marks) =>
                          /\ FindAll(b.kids, "p") # <<>>
                          /\ GetText(LastParagraph(b)) = GetText(LastParagraph(a))
                          /\ FollowingParagraph(after, b) = FollowingParagraph(before, a)

-----------------------------------------------------------------------------
(* ensure_paragraphs_end_with_dot *)

\* The characters of the texts here that [\s\W_] matches
NonWord == {" ", "\n", "\t", "!", ")", ".", "/", "?", "-", "*", "|", "_"}

RECURSIVE DropLeading(_, _)
DropLeading(s, S) == IF s # <<>> /\ s[1] \in S THEN DropLeading(Tail(s), S) ELSE s

\* re.match(r'^([^\s]+)', s): the characters up to the first whitespace
RECURSIVE FirstWord(_)
FirstWord(s) ==
    IF s # <<>> /\ ~ IsSpace(s[1]) THEN <<s[1]>> \o FirstWord(Tail(s)) ELSE <<>>

\* (first_word_has_uppercase looking at the first character only)
FirstWordBeginsUppercase(el) ==
    LET trimmed == DropLeading(GetTextSep(el), NonWord)
        first_word == FirstWord(trimmed)
    IN  first_word # <<>> /\ first_word[1] \in Upper

\* first_word_has_uppercase: any character of the first word is uppercase
FirstWordHasUppercase(el) ==
    LET trimmed == DropLeading(GetTextSep(el), NonWord)
        first_word == FirstWord(trimmed)
    IN  \E i \in 1..Len(first_word) : first_word[i] \in Upper

\* Lines 84-98: while not ends_with_dot(p).  A sibling that is a string has
\* name None, and None.lower() raises AttributeError.
RECURSIVE CompleteSentence(_, _)
CompleteSentence(soup, pId) ==
    LET p == NodeById(soup, pId)
        sib == SkipIgnorable(SiblingsAfter(soup, pId))
    IN  IF EndsWithDot(p) THEN [soup |-> soup, raised |-> FALSE]
        ELSE IF sib = <<>> THEN [soup |-> soup, raised |-> FALSE]
        ELSE IF ~ IsTag(sib[1]) THEN [soup |-> soup, raised |-> TRUE]
        ELSE IF sib[1].tag # "p" THEN [soup |-> soup, raised |-> FALSE]
        ELSE IF FirstWordHasUppercase(sib[1]) THEN [soup |-> soup, raised |-> FALSE]
        ELSE CompleteSentence(SpliceInto(soup, p, sib[1]), pId)

\* Lines 82-98: for p in soup.find_all("p"), from ps[k] on; a paragraph
\* that was decomposed has no parent and is passed over.
RECURSIVE ForEachParagraph(_, _, _)
ForEachParagraph(soup, ps, k) ==
    IF k > Len(ps) THEN [soup |-> soup, raised |-> FALSE]
    ELSE IF ~ HasNode(soup, ps[k].id) THEN ForEachParagraph(soup, ps, k + 1)
    ELSE LET r == CompleteSentence(soup, ps[k].id)
         IN  IF r.raised THEN r ELSE ForEachParagraph(r.soup, ps, k + 1)

\* ensure_paragraphs_end_with_dot(html_fragment) -> str(soup), or it raises
EnsureParagraphsEndWithDot(html) ==
    LET soup == Soup(html, <<>>)
        r == ForEachParagraph(soup, FindAll(soup, "p"), 1)
    IN  [html |-> ToHtml(r.soup), raised |-> r.raised]

\* process_file, line 1164
EnsureDots ==
    /\ stage = "dots"
    /\ LET r == EnsureParagraphsEndWithDot(merged_stream)
       IN  IF r.raised
           THEN stage' = "raised" /\ merged_stream' = merged_stream
           ELSE stage' = "footer" /\ merged_stream' = r.html
    /\ html_fragment' = merged_stream
    /\ UNCHANGED <<source_stream, footer_html, page_num, h1_candidates,
                   chosen_h1, text_content>>

-----------------------------------------------------------------------------
(* convert_paragraphs_to_lists *)

\* The number of characters of s from index i on that lie in S, up to the
\* first that does not.
RECURSIVE CountRun(_, _, _)
CountRun(s, i, S) ==
    IF i <= Len(s) /\ s[i] \in S THEN 1 + CountRun(s, i + 1, S) ELSE 0

Spaces == {" ", "\n", "\t"}

\* The digits num_pat's \d{1,3} takes at most.
NumPatMaxDigits == 3

NoMatch == [ok |-> FALSE, rest |-> <<>>]

\* A prefix pattern ^\s*<mark>[.)]\s+(.*)$ whose mark is markLen characters
\* long, from index `at` on; rest is group (.*).
AfterMark(t, at, markLen, closers) ==
    LET close == at + markLen
        ws == CountRun(t, close + 1, Spaces)
    IN  IF close <= Len(t) /\ t[close] \in closers /\ ws >= 1
        THEN [ok |-> TRUE, rest |-> SubSeq(t, close + 1 + ws, Len(t))]
        ELSE NoMatch

\* num_pat.match(t): ^\s*(\d{1,3})[.)]\s+(.*)$
NumPat(t) ==
    LET lead == CountRun(t, 1, Spaces)
        dn == CountRun(t, lead + 1, Digit)
    IN  IF dn >= 1 /\ dn <= NumPatMaxDigits
        THEN AfterMark(t, lead + 1, dn, {".", ")"})
        ELSE NoMatch

\* letter_pat.match(t): ^\s*([A-Z])[.)]\s+(.*)$
LetterPat(t) ==
    LET lead == CountRun(t, 1, Spaces)
    IN  IF lead + 1 <= Len(t) /\ t[lead + 1] \in Upper
        THEN AfterMark(t, lead + 1, 1, {".", ")"})
        ELSE NoMatch

\* bullet_chars, the ASCII ones
BulletChars == {"-", "*"}

\* bullet_pat.match(t): ^\s*(?:[bullets])\s+(.*)$
BulletPat(t) ==
    LET lead == CountRun(t, 1, Spaces)
        ws == CountRun(t, lead + 2, Spaces)
    IN  IF lead + 1 <= Len(t) /\ t[lead + 1] \in BulletChars /\ ws >= 1
        THEN [ok |-> TRUE, rest |-> SubSeq(t, lead + 2 + ws, Len(t))]
        ELSE NoMatch

\* inline_letter_split_pat, (?:^|\s)([A-Z])[.)]\s+, tried at index i: the
\* index after the match, or 0 when it does not match there.
InlineLetterEnd(t, i) ==
    LET at(l) == IF /\ l + 1 <= Len(t)
                    /\ t[l] \in Upper
                    /\ t[l + 1] \in {".", ")"}
                    /\ CountRun(t, l + 2, Spaces) >= 1
                 THEN l + 2 + CountRun(t, l + 2, Spaces)
                 ELSE 0
    IN  IF i = 1 /\ i <= Len(t) /\ at(1) # 0 THEN at(1)
        ELSE IF i <= Len(t) /\ t[i] \in Spaces THEN at(i + 1)
        ELSE 0

\* list(inline_letter_split_pat.finditer(t)) from index i on: the matches'
\* [start, end), left to right, not overlapping.
RECURSIVE InlineLetterMatches(_, _)
InlineLetterMatches(t, i) ==
    IF i > Len(t) THEN <<>>
    ELSE IF InlineLetterEnd(t, i) # 0
         THEN <<[start |-> i, end |-> InlineLetterEnd(t, i)]>>
                 \o InlineLetterMatches(t, InlineLetterEnd(t, i))
    ELSE InlineLetterMatches(t, i + 1)

\* split_inline_letter_opts(text) -> (q_text, options)
SplitInlineLetterOpts(text) ==
    LET ms == InlineLetterMatches(text, 1)
        opt(k) == Strip(SubSeq(text, ms[k].end,
                               IF k < Len(ms) THEN ms[k + 1].start - 1 ELSE Len(text)))
        opts == [k \in 1..Len(ms) |-> opt(k)]
    IN  IF ms = <<>>
        THEN [q_text |-> Strip(text), options |-> <<>>]
        ELSE [q_text |-> Strip(SubSeq(text, 1, ms[1].start - 1)),
              options |-> SelectSeq(opts, LAMBDA o : o # <<>>)]

\* is_p(el)
IsP(el) == el.tag = "p"

\* Lines 165-178: the A./B. paragraphs that follow children[pos], from k on.
RECURSIVE CollectOptions(_, _)
CollectOptions(children, k) ==
    IF k > Len(children) \/ ~ IsP(children[k]) THEN [texts |-> <<>>, next |-> k]
    ELSE LET tk == GetTextSep(children[k])
             more == CollectOptions(children, k + 1)
         IN  IF NumPat(tk).ok THEN [texts |-> <<>>, next |-> k]
             ELSE IF LetterPat(tk).ok
                  THEN [texts |-> <<LetterPat(tk).rest>> \o more.texts,
                        next |-> more.next]
             ELSE [texts |-> <<>>, next |-> k]

\* Lines 150-195: the numbered items from children[pos] on, and the index
\* after the last node consumed.
RECURSIVE CollectItems(_, _)
CollectItems(children, pos) ==
    IF pos > Len(children) \/ ~ IsP(children[pos]) THEN [items |-> <<>>, next |-> pos]
    ELSE LET mnum == NumPat(GetTextSep(children[pos]))
             split == SplitInlineLetterOpts(mnum.rest)
             opts == CollectOptions(children, pos + 1)
             item == [q_text |-> split.q_text,
                      all_opts |-> split.options \o opts.texts]
             more == CollectItems(children, opts.next)
         IN  IF ~ mnum.ok THEN [items |-> <<>>, next |-> pos]
             ELSE IF /\ opts.next <= Len(children)
                     /\ IsP(children[opts.next])
                     /\ NumPat(GetTextSep(children[opts.next])).ok
                  THEN [items |-> <<item>> \o more.items, next |-> more.next]
             ELSE [items |-> <<item>>, next |-> opts.next]

\* <li>text</li>
Li(s) == El("li", "", IF s = <<>> THEN <<>> ELSE <<Txt(s)>>)

\* Lines 198-212: the <ol class="text-hidden"> of the items, each with its
\* options in a nested <ol type="A">.
NestedOl(items) ==
    El("ol", "text-hidden",
       [n \in 1..Len(items) |->
           El("li", "",
              (IF items[n].q_text = <<>> THEN <<>> ELSE <<Txt(items[n].q_text)>>)
              \o (IF items[n].all_opts = <<>> THEN <<>>
                  ELSE <<[El("ol", "",
                             [m \in 1..Len(items[n].all_opts) |->
                                 Li(items[n].all_opts[m])])
                          EXCEPT !.type = "A"]>>))])

\* The default of min_items
DefaultMinItems == 2

\* process_parent_for_numbered_with_nested(parent), from children[i] on.
\* (children.index(new_ol) finds the first child equal to new_ol, which is
\* at or before the list just inserted; the scan goes on behind it.)
RECURSIVE NumberedWithNested(_, _, _)
NumberedWithNested(children, i, min_items) ==
    IF i > Len(children) THEN children
    ELSE IF ~ IsP(children[i]) \/ ~ NumPat(GetTextSep(children[i])).ok
         THEN NumberedWithNested(children, i + 1, min_items)
    ELSE LET run == CollectItems(children, i)
         IN  IF Len(run.items) >= min_items
             THEN NumberedWithNested(
                      SubSeq(children, 1, i - 1) \o <<NestedOl(run.items)>>
                          \o SubSeq(children, run.next, Len(children)),
                      i + 1, min_items)
             ELSE NumberedWithNested(children, i + 1, min_items)

\* Lines 240-257: "num", "bullet" or "letter", or "" for no list paragraph.
RunKind(t) ==
    IF NumPat(t).ok THEN "num"
    ELSE IF BulletPat(t).ok THEN "bullet"
    ELSE IF LetterPat(t).ok THEN "letter"
    ELSE ""

KindMatch(kind, t) ==
    IF kind = "num" THEN NumPat(t)
    ELSE IF kind = "bullet" THEN BulletPat(t)
    ELSE LetterPat(t)

\* Lines 259-281: the item texts of the run of one kind from children[j] on.
RECURSIVE CollectRun(_, _, _)
CollectRun(children, j, kind) ==
    IF j > Len(children) \/ ~ IsP(children[j]) THEN <<>>
    ELSE IF ~ KindMatch(kind, GetTextSep(children[j])).ok THEN <<>>
    ELSE <<KindMatch(kind, GetTextSep(children[j])).rest>>
            \o CollectRun(children, j + 1, kind)

\* Lines 284-291
SimpleList(kind, run) ==
    [El(IF kind = "bullet" THEN "ul" ELSE "ol", "text-hidden",
        [n \in 1..Len(run) |-> Li(run[n])])
     EXCEPT !.type = IF kind = "letter" THEN "A" ELSE ""]

\* process_parent_simple_runs(parent), from children[i] on
RECURSIVE SimpleRuns(_, _, _)
SimpleRuns(children, i, min_items) ==
    IF i > Len(children) THEN children
    ELSE IF ~ IsP(children[i]) \/ RunKind(GetTextSep(children[i])) = ""
         THEN SimpleRuns(children, i + 1, min_items)
    ELSE LET kind == RunKind(GetTextSep(children[i]))
             run == CollectRun(children, i, kind)
         IN  IF Len(run) >= min_items
             THEN SimpleRuns(
                      SubSeq(children, 1, i - 1) \o <<SimpleList(kind, run)>>
                          \o SubSeq(children, i + Len(run), Len(children)),
                      i + 1, min_items)
             ELSE SimpleRuns(children, i + 1, min_items)

\* Lines 303-305: both scans on every parent of the tree.  A scan changes
\* only the child list of its parent, so the parents are done top-down.
RECURSIVE ConvertChildren(_, _)
ConvertChildren(children, min_items) ==
    LET scanned == SimpleRuns(NumberedWithNested(children, 1, min_items), 1, min_items)
    IN  [n \in 1..Len(scanned) |->
            [scanned[n] EXCEPT !.kids =
                IF IsTag(scanned[n])
                THEN ConvertChildren(scanned[n].kids, min_items)
                ELSE <<>>]]

\* (the sentence merge first, the list scans on what it leaves)
ConvertAfterSentenceMerge(html, min_items) ==
    ToHtml(ConvertChildren(Soup(EnsureParagraphsEndWithDot(html).html, <<>>),
                           min_items))

\* convert_paragraphs_to_lists(html_fragment, min_items) -> str(soup)
ConvertParagraphsToLists(html, min_items) ==
    ToHtml(ConvertChildren(Soup(html, <<>>), min_items))

\* process_file, line 1163
ConvertLists ==
    /\ stage = "lists"
    /\ merged_stream' = ConvertParagraphsToLists(merged_stream, DefaultMinItems)
    /\ html_fragment' = merged_stream
    /\ stage' = "dots"
    /\ UNCHANGED <<source_stream, footer_html, page_num, h1_candidates,
                   chosen_h1, text_content>>

-----------------------------------------------------------------------------
(* inject_h1_for_runtime_match *)

\* re.sub(r"\s+", " ", s): every run of whitespace becomes one space
RECURSIVE CollapseSpaces(_)
CollapseSpaces(s) ==
    IF s = <<>> THEN <<>>
    ELSE IF IsSpace(s[1]) THEN <<" ">> \o CollapseSpaces(LStrip(s))
    ELSE <<s[1]>> \o CollapseSpaces(Tail(s))

\* norm(s): re.sub(r"\s+", " ", s.strip()).lower()
Norm(s) == Lower(CollapseSpaces(Strip(s)))

\* Lines 475-480: the first h2 of h2s whose text is a candidate, as a
\* one-element sequence, or <<>>.
RECURSIVE FirstMatchingH2(_, _)
FirstMatchingH2(h2s, candidates) ==
    IF h2s = <<>> THEN <<>>
    ELSE IF \E c \in 1..Len(candidates) :
                Norm(Strip(GetText(h2s[1]))) = Norm(candidates[c])
         THEN <<h2s[1]>>
    ELSE FirstMatchingH2(Tail(h2s), candidates)

\* inject_h1_for_runtime_match(fragment, candidates) -> (str(soup), chosen)
InjectH1ForRuntimeMatch(fragment, candidates) ==
    LET soup == Soup(fragment, <<>>)
        hit == FirstMatchingH2(FindAll(soup, "h2"), candidates)
    IN  IF candidates = <<>> \/ hit = <<>>
        THEN [html |-> ToHtml(soup), chosen |-> None]
        ELSE [html |-> ToHtml(RemoveNode(soup, hit[1].id)),
              chosen |-> Strip(GetText(hit[1]))]

\* process_file, line 1169
InjectH1 ==
    /\ stage = "h1"
    /\ LET r == InjectH1ForRuntimeMatch(merged_stream, h1_candidates)
       IN  merged_stream' = r.html /\ chosen_h1' = r.chosen
    /\ html_fragment' = merged_stream
    /\ stage' = "text"
    /\ UNCHANGED <<source_stream, footer_html, page_num, h1_candidates,
                   text_content>>

-----------------------------------------------------------------------------
(* recompute_text_from_html_fragment *)

\* clean(t): re.sub(r"\s+", " ", t.strip())
Clean(t) == CollapseSpaces(Strip(t))

DecimalDigits == <<"0", "1", "2", "3", "4", "5", "6", "7", "8", "9">>

\* str(n) of a natural number
RECURSIVE IntToStr(_)
IntToStr(n) ==
    IF n < 10 THEN <<DecimalDigits[n + 1]>>
    ELSE IntToStr(n \div 10) \o <<DecimalDigits[(n % 10) + 1]>>

\* chr(ord('A') + idx - 1), for idx in 1..26
UpperLetters ==
    <<"A", "B", "C", "D", "E", "F", "G", "H", "I", "J", "K", "L", "M",
      "N", "O", "P", "Q", "R", "S", "T", "U", "V", "W", "X", "Y", "Z">>

\* " " * indent
RECURSIVE Indent(_)
Indent(n) == IF n = 0 THEN <<>> ELSE <<" ">> \o Indent(n - 1)

\* text_without_nested_lists(li_tag)
TextWithoutNestedLists(li_tag) ==
    LET own == SelectSeq(li_tag.kids, LAMBDA c : c.tag \notin {"ol", "ul", "table"})
        parts == [i \in 1..Len(own) |->
                     IF IsTag(own[i]) THEN GetTextSep(own[i]) ELSE own[i].text]
    IN  Clean(Join(parts, <<" ">>))

\* Lines 407-415: the marker of the item numbered idx.  ol_type is the type attribute
\* in upper case, so the comparison with "a" never holds.
Marker(list_tag, number) ==
    IF list_tag.tag = "ol"
    THEN IF list_tag.type \in {"A", "a"}
         THEN <<UpperLetters[number], ".", " ">>
         ELSE IntToStr(number) \o <<".", " ">>
    ELSE <<"-", " ">>

\* int(list_tag.get("start") or 1)
StartOf(list_tag) == IF list_tag.start = -1 THEN 1 ELSE list_tag.start

\* dump_list(list_tag, indent): the lines of the items from lis[n] on, and
\* of the lists nested in them.
RECURSIVE DumpItems(_, _, _, _)
RECURSIVE DumpNested(_, _)
DumpList(list_tag, indent) ==
    DumpItems(list_tag, SelectSeq(list_tag.kids, LAMBDA c : c.tag = "li"), 1, indent)

DumpItems(list_tag, lis, n, indent) ==
    IF n > Len(lis) THEN <<>>
    ELSE LET main_text == TextWithoutNestedLists(lis[n])
             number == StartOf(list_tag) + n - 1
         IN  (IF main_text # <<>>
              THEN <<Indent(indent) \o Marker(list_tag, number) \o main_text>>
              ELSE <<>>)
             \o DumpNested(SelectSeq(lis[n].kids, LAMBDA c : c.tag \in {"ol", "ul"}),
                           indent + 2)
             \o DumpItems(list_tag, lis, n + 1, indent)

DumpNested(nested, indent) ==
    IF nested = <<>> THEN <<>>
    ELSE DumpList(nested[1], indent) \o DumpNested(Tail(nested), indent)

\* (a line for every row, with or without text in its cells)
DumpRowAlways(tr, indent) ==
    LET found == SelectSeq(tr.kids, LAMBDA c : c.tag \in {"th", "td"})
        cells == [i \in 1..Len(found) |-> Clean(GetTextSep(found[i]))]
    IN  <<Indent(indent) \o Join(cells, <<" ", "|", " ">>)>>

\* Lines 423-426: the line of one row, as a one-element sequence, or <<>>
\* when no cell has text.
DumpRow(tr, indent) ==
    LET found == SelectSeq(tr.kids, LAMBDA c : c.tag \in {"th", "td"})
        cells == [i \in 1..Len(found) |-> Clean(GetTextSep(found[i]))]
    IN  IF \E i \in 1..Len(cells) : cells[i] # <<>>
        THEN <<Indent(indent) \o Join(cells, <<" ", "|", " ">>)>>
        ELSE <<>>

\* dump_table(table_tag, indent)
DumpTable(table_tag, indent) ==
    LET trs == FindAll(table_tag.kids, "tr")
    IN  Concat([i \in 1..Len(trs) |-> DumpRow(trs[i], indent)])

\* Lines 429-456: the lines of one top-level node
LinesOfNode(node) ==
    IF ~ IsTag(node) THEN <<>>
    ELSE IF node.tag = "p"
         THEN IF Clean(GetTextSep(node)) # <<>> THEN <<Clean(GetTextSep(node))>> ELSE <<>>
    ELSE IF node.tag \in {"ol", "ul"} THEN DumpList(node, 0)
    ELSE IF node.tag = "aside"
         THEN LET ps == FindAll(node.kids, "p")
              IN  IF ps # <<>> /\ Clean(GetTextSep(ps[1])) # <<>>
                  THEN <<Clean(GetTextSep(ps[1]))>>
                  ELSE <<>>
    ELSE IF node.tag = "table" THEN DumpTable(node, 0)
    ELSE <<>>

\* The lines recompute_text_from_html_fragment collects
LinesOf(html) == Concat([i \in 1..Len(html) |-> LinesOfNode(html[i])])

\* recompute_text_from_html_fragment(html_fragment) -> "\n\n".join(lines)
RecomputeTextFromHtmlFragment(html) == Join(LinesOf(html), <<"\n", "\n">>)

\* process_file, line 1170
RecomputeText ==
    /\ stage = "text"
    /\ text_content' = RecomputeTextFromHtmlFragment(merged_stream)
    /\ html_fragment' = merged_stream
    /\ stage' = "done"
    /\ UNCHANGED <<source_stream, merged_stream, footer_html, page_num,
                   h1_candidates, chosen_h1>>

-----------------------------------------------------------------------------
(* process_file, lines 1162-1170: the repair passes in their order *)

\* Sample texts
TextOne     == <<"1", ".", " ", "R">>
TextTwo     == <<"2", ".", " ", "G">>
TextOptions == <<"3", ".", " ", "B", " ", "A", ".", " ", "m">>
TextLetter  == <<"A", ".", " ", "x">>

\* The top-level nodes of the streams the stream merge hands to the passes:
\* tags, and the line breaks that join them.
RepairNodes ==
    { P(TextOne), P(TextTwo), P(TextOptions), P(TextLetter), P(TextNext),
      P(TextDot), P(TextNine),
      Aside(<<H2(TextTitle), P(TextOpen)>>), Aside(<<H2(TextTitle), P(TextDot)>>),
      H2(TextTitle), Figure, Txt(<<"\n">>) }

MaxRepairNodes == 3

InitRepair ==
    /\ IdleJobs
    /\ IdleFolder
    /\ IdleTable
    /\ IdlePatch
    /\ IdleProc
    /\ StartAt("aside", FragmentsOf(RepairNodes, MaxRepairNodes),
               {<<>>, <<TextTitle>>})

NextRepair ==
    /\ \/ MergeAside
       \/ ConvertLists
       \/ EnsureDots
       \/ MovePageNumberToFooter
       \/ InjectH1
       \/ RecomputeText
    /\ UNCHANGED notFileVars

SpecRepair == InitRepair /\ [][NextRepair]_vars

-----------------------------------------------------------------------------
(* Properties of the repair passes *)

RECURSIVE LineLen(_)
LineLen(s) == IF s = <<>> \/ s[1] = "\n" THEN 0 ELSE 1 + LineLen(Tail(s))

\* text.split("\n\n"), for a text whose lines hold no line break
RECURSIVE SplitLines(_)
SplitLines(s) ==
    IF s = <<>> THEN <<>>
    ELSE <<SubSeq(s, 1, LineLen(s))>>
            \o (IF LineLen(s) + 2 < Len(s)
                THEN SplitLines(SubSeq(s, LineLen(s) + 3, Len(s)))
                ELSE <<>>)

\* A paragraph "n. text"
IsNumberedParagraph(n) == IsP(n) /\ NumPat(GetTextSep(n)).ok

\* The maximal runs of consecutive numbered paragraphs among the nodes from
\* nodes[i] on, each as the sequence of its paragraphs' texts.
RECURSIVE NumberedRuns(_, _)
NumberedRuns(nodes, i) ==
    IF i > Len(nodes) THEN <<>>
    ELSE IF ~ IsNumberedParagraph(nodes[i]) THEN NumberedRuns(nodes, i + 1)
    ELSE LET k == CHOOSE k \in 1..(Len(nodes) - i + 1) :
                      /\ \A n \in 0..(k - 1) : IsNumberedParagraph(nodes[i + n])
                      /\ (i + k > Len(nodes) \/ ~ IsNumberedParagraph(nodes[i + k]))
         IN  <<[n \in 1..k |-> GetTextSep(nodes[i + n - 1])]>>
                 \o NumberedRuns(nodes, i + k)

\* s occurs in t as a block of consecutive elements
IsInfix(s, t) ==
    \E at \in 0..(Len(t) - Len(s)) : SubSeq(t, at + 1, at + Len(s)) = s

\* The sequence completed and every top-level run of `least` or more
\* numbered paragraphs of the fragment that satisfies ok has become a list
\* of its own: the top-level plain ordered lists of the result are, in order,
\* the runs, each item's own text the text after the number of its
\* paragraph; the unindented lines of the text number the items of each
\* from 1; the paragraphs of the runs are gone; and no other run has become
\* a list.
RunsBecomeLists(ok(_, _)) ==
    stage = "done" =>
        LET source == ToHtml(source_stream)
            all == NumberedRuns(source, 1)
            runs == SelectSeq(all, LAMBDA r : Len(r) >= DefaultMinItems)
            lists == SelectSeq(merged_stream, LAMBDA n : n.tag = "ol" /\ n.type = "")
            paragraphs(nodes) == Len(SelectSeq(nodes, IsP))
            sizes == [r \in 1..Len(runs) |-> Len(runs[r])]
        IN  ok(source, runs) =>
              /\ Len(lists) = Len(runs)
              /\ \A r \in 1..Len(runs) :
                    /\ Len(lists[r].kids) = Len(runs[r])
                    /\ \A n \in 1..Len(runs[r]) :
                          /\ lists[r].kids[n].tag = "li"
                          /\ TextWithoutNestedLists(lists[r].kids[n])
                                = NumPat(runs[r][n]).rest
                    /\ IsInfix([n \in 1..Len(runs[r]) |->
                                   IntToStr(n) \o <<".", " ">> \o NumPat(runs[r][n]).rest],
                               SelectSeq(SplitLines(text_content),
                                         LAMBDA line : line[1] # " "))
              /\ paragraphs(merged_stream) + Len(Concat(runs)) <= paragraphs(source)

C6_AsideAbsorbsRun ==
    /\ stage = "done"
    /\ source_stream = <<Aside(<<H2(TextTitle), P(TextOpen)>>), P(TextOne), P(TextTwo)>>
    /\ merged_stream =
          <<Aside(<<H2(TextTitle),
                    P(TextOpen \o <<" ">> \o TextOne \o <<" ">> \o TextTwo)>>)>>
    /\ text_content = TextOpen \o <<" ">> \o TextOne \o <<" ">> \o TextTwo

-----------------------------------------------------------------------------
(* Table detection: group_by_y, detect_comparison_table, detect_fact_table *)

\* sorted(seq, key=...) for the strict order Before: a stable sort
StableSort(seq, Before(_, _)) ==
    LET rank(i) == Cardinality({j \in 1..Len(seq) :
                       \/ Before(seq[j], seq[i])
                       \/ (~ Before(seq[i], seq[j]) /\ j < i)}) + 1
    IN  [r \in 1..Len(seq) |-> seq[CHOOSE i \in 1..Len(seq) : rank(i) = r]]

\* key=lambda z: (z['y'], z['x'])
ByYX(a, b) == a.y < b.y \/ (a.y = b.y /\ a.x < b.x)

\* key=lambda z: z['x']
ByX(a, b) == a.x < b.x

Abs(n) == IF n < 0 THEN -n ELSE n

\* A token of collect_tokens
Token(y, x, cls, text) == [y |-> y, x |-> x, cls |-> cls, text |-> text, idx |-> 0]

\* Lines 652-655: the tokens in (y, x) order, each with its index (from 0)
Indexed(toks) ==
    LET sorted == StableSort(toks, ByYX)
    IN  [i \in 1..Len(sorted) |-> [sorted[i] EXCEPT !.idx = i - 1]]

\* Lines 660-665, from tokens[k] on: a token opens a line when it is more
\* than y_tol from the first token of the line that is open.
RECURSIVE CollectLines(_, _, _, _)
CollectLines(toks, k, tol, lines) ==
    IF k > Len(toks) THEN lines
    ELSE IF lines = <<>> \/ Abs(toks[k].y - lines[Len(lines)].y) > tol
         THEN CollectLines(toks, k + 1, tol,
                           Append(lines, [y |-> toks[k].y, items |-> <<toks[k]>>]))
    ELSE CollectLines(toks, k + 1, tol,
                      [lines EXCEPT ![Len(lines)].items = Append(@, toks[k])])

\* (a token opens a line when it is more than y_tol from the token before it)
RECURSIVE CollectChained(_, _, _, _)
CollectChained(toks, k, tol, lines) ==
    IF k > Len(toks) THEN lines
    ELSE IF lines = <<>> \/ Abs(toks[k].y - toks[k - 1].y) > tol
         THEN CollectChained(toks, k + 1, tol,
                             Append(lines, [y |-> toks[k].y, items |-> <<toks[k]>>]))
    ELSE CollectChained(toks, k + 1, tol,
                        [lines EXCEPT ![Len(lines)].items = Append(@, toks[k])])

GroupByYChained(toks, tol) ==
    LET lines == CollectChained(toks, 1, tol, <<>>)
    IN  [i \in 1..Len(lines) |->
            [lines[i] EXCEPT !.items = StableSort(@, ByX)]]

\* group_by_y(tokens, y_tol)
GroupByY(toks, tol) ==
    LET lines == CollectLines(toks, 1, tol, <<>>)
    IN  [i \in 1..Len(lines) |->
            [lines[i] EXCEPT !.items = StableSort(@, ByX)]]

\* tidy_text(s): " ".join(s.split())
TidyText(s) == CollapseSpaces(Strip(s))

\* x_span(tokens)[2]
XSpan(toks) ==
    LET xs == {toks[i].x : i \in 1..Len(toks)}
    IN  (CHOOSE m \in xs : \A x \in xs : x <= m)
          - (CHOOSE m \in xs : \A x \in xs : m <= x)

IsBlock(b) == b.kind \notin {"None", "NameError"}

\* build_html_table(header, rows); header is <<>> for None
BuildHtmlTable(header, body_rows) ==
    LET cells(tag, r) == [c \in 1..Len(r) |-> El(tag, "", IF r[c] = <<>> THEN <<>> ELSE <<Txt(r[c])>>)]
        thead == IF header = <<>> THEN <<>>
                 ELSE <<Txt(<<"\n", " ", " ">>),
                        El("thead", "", <<El("tr", "", cells("th", header))>>)>>
        trs == Concat([r \in 1..Len(body_rows) |->
                          <<Txt(<<"\n", " ", " ", " ", " ">>),
                            El("tr", "", cells("td", body_rows[r]))>>])
    IN  <<El("table", "",
             thead \o <<Txt(<<"\n", " ", " ">>),
                        El("tbody", "", trs \o <<Txt(<<"\n", " ", " ">>)>>),
                        Txt(<<"\n">>)>>)>>

\* The defaults of detect_comparison_table and detect_fact_table
HeaderCls == "styleid4"
LabelCls  == "styleid4"
ValueCls  == "styleid5"
FactLabelCls == "styleid3"
FactValueCls == "styleid4"
ComparisonYTol == 8
FactYTol == 6
DefaultMinRows == 3

\* y_label - 1e6 and y_label + 1e6
Far == 1000000

\* Lines 685-686: the header lines, those with three header tokens or more
HeaderLines(toks, tol) ==
    LET hdr_tokens == SelectSeq(toks, LAMBDA t : t.cls = HeaderCls)
    IN  SelectSeq(GroupByY(StableSort(hdr_tokens, ByYX), tol),
                  LAMBDA ln : Len(ln.items) >= 3)

\* Lines 700-701: the label lines below the header line
LabelLines(toks, header_line, tol) ==
    GroupByY(SelectSeq(toks, LAMBDA t : t.cls = LabelCls /\ t.y > header_line.y), tol)

\* Line 718: the anchor nearest to x, the first of them when two are as near
NearestAnchor(x, anchors) ==
    CHOOSE j \in 1..3 :
        /\ \A k \in 1..3 : Abs(x - anchors[j]) <= Abs(x - anchors[k])
        /\ \A k \in 1..(j - 1) : Abs(x - anchors[k]) > Abs(x - anchors[j])

\* Lines 709-729: the row of label line i, with the tokens it uses
ComparisonRow(toks, header_line, anchors, label_lines, i) ==
    LET y_label == label_lines[i].y
        y_prev == IF i > 1 THEN label_lines[i - 1].y ELSE y_label - Far
        y_next == IF i < Len(label_lines) THEN label_lines[i + 1].y ELSE y_label + Far
        band == SelectSeq(toks, LAMBDA t :
                    /\ y_prev + y_label <= 2 * t.y
                    /\ 2 * t.y <= y_label + y_next
                    /\ t.y # header_line.y)
        keep(j, cls) == StableSort(
                            SelectSeq(band, LAMBDA t :
                                NearestAnchor(t.x, anchors) = j /\ t.cls = cls),
                            ByYX)
        merge(j, cls) == TidyText(Join([n \in 1..Len(keep(j, cls)) |-> keep(j, cls)[n].text],
                                       <<" ">>))
    IN  [cells |-> <<merge(1, LabelCls), merge(2, ValueCls), merge(3, ValueCls)>>,
         used |-> {keep(1, LabelCls)[n].idx : n \in 1..Len(keep(1, LabelCls))}
                    \cup {keep(2, ValueCls)[n].idx : n \in 1..Len(keep(2, ValueCls))}
                    \cup {keep(3, ValueCls)[n].idx : n \in 1..Len(keep(3, ValueCls))}]

\* detect_comparison_table(tokens, y_tol=8.0, min_rows=least)
DetectComparisonTable(all, least) ==
    LET toks == SelectSeq(all, LAMBDA t : t.cls \in {HeaderCls, LabelCls, ValueCls})
        hdr_lines == HeaderLines(toks, ComparisonYTol)
        header_line == hdr_lines[1]
        items == SubSeq(StableSort(header_line.items, ByX), 1, 3)
        anchors == [c \in 1..3 |-> items[c].x]
        gap == IF anchors[2] - anchors[1] < anchors[3] - anchors[2]
               THEN anchors[2] - anchors[1] ELSE anchors[3] - anchors[2]
        label_lines == LabelLines(toks, header_line, ComparisonYTol)
        each == [i \in 1..Len(label_lines) |->
                    ComparisonRow(toks, header_line, anchors, label_lines, i)]
        kept == SelectSeq(each, LAMBDA r : \E c \in 1..3 : r.cells[c] # <<>>)
        table_rows == [r \in 1..Len(kept) |-> kept[r].cells]
        nonempty_both == Len(SelectSeq(table_rows, LAMBDA r : r[2] # <<>> /\ r[3] # <<>>))
        used == {items[c].idx : c \in 1..3}
                   \cup UNION {each[i].used : i \in 1..Len(each)}
        ys == {all[i + 1].y : i \in used}
        header == [c \in 1..3 |-> TidyText(items[c].text)]
    IN  IF toks = <<>> THEN NoBlock
        ELSE IF XSpan(toks) <= 0 THEN NoBlock
        ELSE IF hdr_lines = <<>> THEN NoBlock
        ELSE IF 10 * gap < XSpan(toks) THEN NoBlock
        ELSE IF Len(label_lines) < least THEN NoBlock
        ELSE IF Len(table_rows) < least THEN NoBlock
        ELSE IF 10 * nonempty_both < 6 * Len(table_rows) THEN NoBlock
        ELSE [kind |-> "comparison_3col",
              header |-> header,
              rows |-> table_rows,
              html |-> BuildHtmlTable(header, table_rows),
              used_idx |-> used,
              ymin |-> CHOOSE m \in ys : \A y \in ys : m <= y,
              ymax |-> CHOOSE m \in ys : \A y \in ys : y <= m]

\* Lines 753-761: the lines of group_by_y that hold a label token
FactLabelLines(all) ==
    LET toks == SelectSeq(all, LAMBDA t : t.cls \in {FactLabelCls, FactValueCls})
    IN  SelectSeq(GroupByY(toks, FactYTol),
                  LAMBDA ln : \E n \in 1..Len(ln.items) : ln.items[n].cls = FactLabelCls)

\* detect_fact_table(tokens, y_tol=6.0, min_rows=least), for least >= 1.  The
\* name median of line 759 is bound nowhere in the module: the first line
\* that holds a label token raises NameError.
DetectFactTable(all, least) ==
    LET toks == SelectSeq(all, LAMBDA t : t.cls \in {FactLabelCls, FactValueCls})
    IN  IF toks = <<>> THEN NoBlock
        ELSE IF XSpan(toks) <= 0 THEN NoBlock
        ELSE IF FactLabelLines(all) # <<>> THEN NameError
        ELSE NoBlock

\* Sample texts
TextH == <<"h">>
TextL == <<"l">>
TextV == <<"v">>

\* The tokens a page may hold: a header line of three, three lines below it
\* with a label and two values each, a label that stands in the second
\* column, and two labels of the fact class.
Page ==
    << Token(0, 0, HeaderCls, TextH), Token(0, 40, HeaderCls, TextH),
       Token(0, 80, HeaderCls, TextH),
       Token(20, 0, LabelCls, TextL), Token(20, 40, ValueCls, TextV),
       Token(20, 80, ValueCls, TextV),
       Token(40, 0, LabelCls, TextL), Token(40, 40, ValueCls, TextV),
       Token(40, 80, ValueCls, TextV),
       Token(60, 0, LabelCls, TextL), Token(60, 40, ValueCls, TextV),
       Token(60, 80, ValueCls, TextV),
       Token(60, 40, LabelCls, TextL),
       Token(20, 0, FactLabelCls, TextL), Token(40, 0, FactLabelCls, TextL) >>

\* collect_tokens' result for the tokens of page whose position is in picked
TokensOf(page, picked) ==
    LET RECURSIVE Pick(_)
        Pick(k) == IF k > Len(page) THEN <<>>
                   ELSE (IF k \in picked THEN <<page[k]>> ELSE <<>>) \o Pick(k + 1)
    IN  Indexed(Pick(1))

MaxMinRows == 3

\* render_page_with_tables, lines 841-844; an exception is passed over
DetectComparison ==
    /\ tpc = "comparison"
    /\ comparison' = DetectComparisonTable(tokens, min_rows)
    /\ blocks' = Append(blocks, comparison')
    /\ tpc' = "fact"
    /\ UNCHANGED <<tokens, y_tol, min_rows, grouped, regrouped, fact, block, rendered,
                   chosen, page_html>>

\* (an exception in the second detector that loses the blocks so far)
PassOverLosingBlocks(bs, outcome) ==
    IF outcome = NameError THEN <<>> ELSE Append(bs, outcome)

\* Lines 845-848: blocks.append(...) inside try, except Exception: pass
PassOver(bs, outcome) ==
    IF outcome = NameError THEN bs ELSE Append(bs, outcome)

\* render_page_with_tables, lines 845-848; an exception is passed over
DetectFact ==
    /\ tpc = "fact"
    /\ fact' = DetectFactTable(tokens, min_rows)
    /\ blocks' = PassOver(blocks, fact')
    /\ tpc' = "detected"
    /\ UNCHANGED <<tokens, y_tol, min_rows, grouped, regrouped, comparison, block,
                   rendered, chosen, page_html>>

InitDetect ==
    /\ IdleJobs
    /\ IdleFolder
    /\ IdleFile
    /\ IdlePatch
    /\ IdleProc
    /\ tpc = "comparison"
    /\ \E picked \in SUBSET (1..Len(Page)) : tokens = TokensOf(Page, picked)
    /\ min_rows \in 1..MaxMinRows
    /\ y_tol = 0
    /\ grouped = <<>>
    /\ regrouped = <<>>
    /\ comparison = NoBlock
    /\ fact = NoBlock
    /\ block = NoBlock
    /\ rendered = NoBlock
    /\ blocks = <<>>
    /\ chosen = <<>>
    /\ page_html = <<>>

NextDetect ==
    /\ \/ DetectComparison
       \/ DetectFact
    /\ UNCHANGED notTableVars

SpecDetect == InitDetect /\ [][NextDetect]_vars

-----------------------------------------------------------------------------
(* Properties of the detectors *)

\* The label lines a candidate of detect_comparison_table has
ComparisonLabelLines ==
    LET toks == SelectSeq(tokens, LAMBDA t : t.cls \in {HeaderCls, LabelCls, ValueCls})
    IN  IF HeaderLines(toks, ComparisonYTol) = <<>> THEN <<>>
        ELSE LabelLines(toks, HeaderLines(toks, ComparisonYTol)[1], ComparisonYTol)

\* C7 as claimed: a block either detector returns has min_rows rows or
\* more, and a candidate with min_rows - 1 label lines makes the detector
\* return None.
C7_BlocksHaveMinRows ==
    tpc = "detected" =>
        /\ IsBlock(comparison) => Len(comparison.rows) >= min_rows
        /\ IsBlock(fact) => Len(fact.rows) >= min_rows
        /\ Len(ComparisonLabelLines) = min_rows - 1 => comparison = NoBlock
        /\ Len(FactLabelLines(tokens)) = min_rows - 1 => fact = NoBlock

\* What holds of the code: neither detector returns a block of fewer than
\* min_rows rows or from fewer than min_rows label lines, and
\* detect_comparison_table returns None for such a candidate.
C7_NoBlockBelowMinRows ==
    tpc = "detected" =>
        /\ IsBlock(comparison) =>
              /\ Len(comparison.rows) >= min_rows
              /\ Len(ComparisonLabelLines) >= min_rows
        /\ ~ IsBlock(fact)
        /\ Len(ComparisonLabelLines) < min_rows => comparison = NoBlock

\* C7's failing case: two label lines for min_rows = 3, and
\* detect_fact_table has raised NameError.
C7_FactRaises ==
    /\ tpc = "detected"
    /\ min_rows = DefaultMinRows
    /\ Len(FactLabelLines(tokens)) = min_rows - 1
    /\ fact = NameError

\* detect_comparison_table has returned a block of three rows, and has
\* rejected nothing: every token of the comparison classes is in it.
C7_ComparisonBlock ==
    /\ tpc = "detected"
    /\ min_rows = DefaultMinRows
    /\ IsBlock(comparison)
    /\ Len(comparison.rows) = 3
    /\ Len(tokens) = 12

-----------------------------------------------------------------------------
(* group_by_y on its own *)

TextA == <<"a">>
TextB == <<"b">>

\* The tokens a token list may hold: a grid of four y and two x, and two
\* tokens that share the position of another.
GroupPage ==
    << Token(0, 0, HeaderCls, TextA), Token(0, 1, HeaderCls, TextA),
       Token(1, 0, HeaderCls, TextA), Token(1, 1, HeaderCls, TextA),
       Token(2, 0, HeaderCls, TextA), Token(2, 1, HeaderCls, TextA),
       Token(3, 0, HeaderCls, TextA), Token(3, 1, HeaderCls, TextA),
       Token(0, 1, ValueCls, TextB), Token(2, 0, ValueCls, TextB) >>

MaxYTol == 2

\* group_by_y(tokens, y_tol)
Group ==
    /\ tpc = "group"
    /\ grouped' = GroupByY(tokens, y_tol)
    /\ tpc' = "grouped"
    /\ UNCHANGED <<tokens, y_tol, min_rows, regrouped, comparison, fact, block,
                   rendered, blocks, chosen, page_html>>

\* The items of the lines, line after line
ItemsOf(lns) == Concat([i \in 1..Len(lns) |-> lns[i].items])

\* group_by_y(tokens, y_tol), a second time
RegroupSame ==
    /\ tpc = "grouped"
    /\ regrouped' = GroupByY(tokens, y_tol)
    /\ tpc' = "regrouped"
    /\ UNCHANGED <<tokens, y_tol, min_rows, grouped, comparison, fact, block,
                   rendered, blocks, chosen, page_html>>

\* group_by_y(sorted(items of the lines, key=(y, x)), y_tol)
RegroupSorted ==
    /\ tpc = "grouped"
    /\ regrouped' = GroupByY(StableSort(ItemsOf(grouped), ByYX), y_tol)
    /\ tpc' = "regrouped"
    /\ UNCHANGED <<tokens, y_tol, min_rows, grouped, comparison, fact, block,
                   rendered, blocks, chosen, page_html>>

InitGroup ==
    /\ IdleJobs
    /\ IdleFolder
    /\ IdleFile
    /\ IdlePatch
    /\ IdleProc
    /\ tpc = "group"
    /\ \E picked \in SUBSET (1..Len(GroupPage)) : tokens = TokensOf(GroupPage, picked)
    /\ y_tol \in 0..MaxYTol
    /\ min_rows = 0
    /\ grouped = <<>>
    /\ regrouped = <<>>
    /\ comparison = NoBlock
    /\ fact = NoBlock
    /\ block = NoBlock
    /\ rendered = NoBlock
    /\ blocks = <<>>
    /\ chosen = <<>>
    /\ page_html = <<>>

NextGroup ==
    /\ \/ Group
       \/ RegroupSame
       \/ RegroupSorted
    /\ UNCHANGED notTableVars

SpecGroup == InitGroup /\ [][NextGroup]_vars

-----------------------------------------------------------------------------
(* Properties of group_by_y *)

\* C10: group_by_y on a (y, x)-sorted token list puts every token in
\* exactly one line, the tokens of a line in ascending x and each within
\* y_tol of the y of the token that opened the line, the lines in ascending
\* y; and grouping the same list again, or the lines' tokens sorted by
\* (y, x) again, gives the same lines.
C10_GroupByYPartitions ==
    /\ tpc \in {"grouped", "regrouped"} =>
          /\ Len(ItemsOf(grouped)) = Len(tokens)
          /\ \A t \in Range(tokens) :
                Cardinality({<<i, n>> \in (1..Len(grouped)) \X (1..Len(tokens)) :
                                n <= Len(grouped[i].items) /\ grouped[i].items[n] = t}) = 1
          /\ \A i \in 1..Len(grouped) :
                /\ grouped[i].items # <<>>
                /\ \A n \in 1..(Len(grouped[i].items) - 1) :
                      grouped[i].items[n].x <= grouped[i].items[n + 1].x
                /\ \A n \in 1..Len(grouped[i].items) :
                      Abs(grouped[i].items[n].y - grouped[i].y) <= y_tol
                /\ \E n \in 1..Len(grouped[i].items) :
                      /\ grouped[i].items[n].y = grouped[i].y
                      /\ \A m \in 1..Len(grouped[i].items) :
                            grouped[i].items[n].idx <= grouped[i].items[m].idx
          /\ \A i \in 1..(Len(grouped) - 1) : grouped[i].y < grouped[i + 1].y
    /\ tpc = "regrouped" => regrouped = grouped

\* C10's case: two lines; the first was opened at y = 0 and holds a token
\* of y = 1 that the sort by x has put first.
C10_Witness ==
    /\ tpc = "regrouped"
    /\ y_tol = 1
    /\ Len(grouped) = 2
    /\ Len(grouped[1].items) = 2
    /\ grouped[1].y = 0
    /\ grouped[1].items[1].y = 1
    /\ grouped[2].y = 2

-----------------------------------------------------------------------------
(* render_page_with_tables: maybe_fact_to_ol *)

\* The digits NUM_LABEL_RE's \d{1,3} takes at most
NumLabelMaxDigits == 3

\* NUM_LABEL_RE.match(lab): ^\s*(\d{1,3})\s*(?:[.)])?\s*$; digits is group 1
NumLabelRe(lab) ==
    LET s == Strip(lab)
        dn == CountRun(s, 1, Digit)
        tail == LStrip(SubSeq(s, dn + 1, Len(s)))
    IN  IF /\ dn >= 1
           /\ dn <= NumLabelMaxDigits
           /\ tail \in {<<>>, <<".">>, <<")">>}
        THEN [ok |-> TRUE, digits |-> SubSeq(s, 1, dn)]
        ELSE [ok |-> FALSE, digits |-> <<>>]

\* int(digits)
RECURSIVE StrToInt(_)
StrToInt(digits) ==
    IF digits = <<>> THEN 0
    ELSE 10 * StrToInt(SubSeq(digits, 1, Len(digits) - 1))
           + (CHOOSE d \in 0..9 : DecimalDigits[d + 1] = digits[Len(digits)])

\* build_html_ol(items, start)
BuildHtmlOl(items, start) ==
    <<[El("ol", "text-hidden",
          Concat([n \in 1..Len(items) |->
                     <<Txt(<<"\n", " ", " ">>), Li(TidyText(items[n]))>>])
            \o <<Txt(<<"\n">>)>>)
       EXCEPT !.start = IF start # 1 THEN start ELSE -1]>>

\* (every sequence of numbers passes)
AnyNumbers(numbers) == TRUE

\* Lines 867-870: n == start + idx for every pair
Contiguous(numbers) ==
    \A n \in 1..Len(numbers) : numbers[n] = numbers[1] + n - 1

\* The rows maybe_fact_to_ol asks for at least
FactOlMinRows == 3

\* maybe_fact_to_ol(block): the list's markup, or <<>> for None
MaybeFactToOl(b) ==
    IF b.kind # "fact_2col" THEN <<>>
    ELSE LET vals == [r \in 1..Len(b.rows) |-> TidyText(b.rows[r][2])]
             numbers == [r \in 1..Len(b.rows) |->
                            StrToInt(NumLabelRe(b.rows[r][1]).digits)]
         IN  IF \E r \in 1..Len(b.rows) :
                    vals[r] = <<>> \/ ~ NumLabelRe(b.rows[r][1]).ok
             THEN <<>>
             ELSE IF Len(b.rows) < FactOlMinRows THEN <<>>
             ELSE IF ~ Contiguous(numbers) THEN <<>>
             ELSE BuildHtmlOl(vals, numbers[1])

\* render_page_with_tables, lines 874-878: the body of the loop for one block
CollapseBlock ==
    /\ tpc = "collapse"
    /\ rendered' = IF MaybeFactToOl(block) # <<>>
                   THEN [block EXCEPT !.html = MaybeFactToOl(block),
                                      !.kind = "ol_from_fact"]
                   ELSE block
    /\ tpc' = "collapsed"
    /\ UNCHANGED <<tokens, y_tol, min_rows, grouped, regrouped, comparison, fact,
                   block, blocks, chosen, page_html>>

\* The rows a fact block may hold
FactRows ==
    { <<<<"1">>, TextV>>, <<<<"2">>, TextV>>, <<<<"3", ".">>, TextV>>,
      <<<<"4", " ", ")">>, TextV>>, <<<<"0", "2">>, TextB>>,
      <<<<"1", "0", "0", "0">>, TextV>>, <<TextL, TextV>>, <<<<>>, TextV>>,
      <<<<"2">>, <<>>>>, <<<<"3", ".">>, <<" ">>>> }

MaxFactRows == 4

\* A block as a detector builds it
Block(kind, header, body_rows) ==
    [kind |-> kind, header |-> header, rows |-> body_rows,
     html |-> BuildHtmlTable(header, body_rows), used_idx |-> {}, ymin |-> 0,
     ymax |-> 0]

InitCollapse ==
    /\ IdleJobs
    /\ IdleFolder
    /\ IdleFile
    /\ IdlePatch
    /\ IdleProc
    /\ tpc = "collapse"
    /\ \/ \E body_rows \in FragmentsOf(FactRows, MaxFactRows) :
             block = Block("fact_2col", <<>>, body_rows)
       \/ block = Block("comparison_3col", <<TextH, TextH, TextH>>,
                        <<<<<<"1">>, TextV, TextV>>, <<<<"2">>, TextV, TextV>>,
                          <<<<"3">>, TextV, TextV>>>>)
    /\ rendered = NoBlock
    /\ blocks = <<>>
    /\ chosen = <<>>
    /\ page_html = <<>>
    /\ tokens = <<>>
    /\ y_tol = 0
    /\ min_rows = 0
    /\ grouped = <<>>
    /\ regrouped = <<>>
    /\ comparison = NoBlock
    /\ fact = NoBlock

NextCollapse == CollapseBlock /\ UNCHANGED notTableVars

SpecCollapse == InitCollapse /\ [][NextCollapse]_vars

-----------------------------------------------------------------------------
(* Properties of maybe_fact_to_ol *)

\* A bare integer, optionally followed by "." or ")": its digits as a
\* one-element sequence, or <<>> for any other label.
BareInteger(lab) ==
    LET s == Strip(lab)
        dn == CountRun(s, 1, Digit)
        tail == Strip(SubSeq(s, dn + 1, Len(s)))
    IN  IF dn >= 1 /\ tail \in {<<>>, <<".">>, <<")">>}
        THEN <<SubSeq(s, 1, dn)>>
        ELSE <<>>

\* The row is one the collapse takes: an integer label that continues the
\* sequence the first row starts, and a value.
RowQualifies(body_rows, r) ==
    /\ BareInteger(body_rows[r][1]) # <<>>
    /\ BareInteger(body_rows[1][1]) # <<>>
    /\ StrToInt(BareInteger(body_rows[r][1])[1])
         = StrToInt(BareInteger(body_rows[1][1])[1]) + r - 1
    /\ Strip(body_rows[r][2]) # <<>>

\* C8: the collapse is all-or-nothing.  A block becomes a list only if it
\* was a fact_2col block whose every row qualifies, and then the list starts
\* at the first integer and holds one item per row, the values in row order;
\* a fact_2col block with a row that does not qualify keeps its kind and
\* its markup; every other field of a block stays as it was.
C8_CollapseAllOrNothing ==
    tpc = "collapsed" =>
        /\ rendered.kind = "ol_from_fact" =>
              /\ block.kind = "fact_2col"
              /\ \A r \in 1..Len(block.rows) : RowQualifies(block.rows, r)
              /\ Len(rendered.html) = 1
              /\ rendered.html[1].tag = "ol"
              /\ StartOf(rendered.html[1]) = StrToInt(BareInteger(block.rows[1][1])[1])
              /\ LET lis == SelectSeq(rendered.html[1].kids, LAMBDA c : c.tag = "li")
                 IN  /\ Len(lis) = Len(block.rows)
                     /\ \A r \in 1..Len(lis) : GetText(lis[r]) = TidyText(block.rows[r][2])
        /\ (/\ block.kind = "fact_2col"
            /\ \E r \in 1..Len(block.rows) : ~ RowQualifies(block.rows, r)) =>
              rendered = block
        /\ rendered.kind \in {block.kind, "ol_from_fact"}
        /\ rendered.rows = block.rows

\* C8's case: the rows 2, 3., 4 ) with values have become a list that
\* starts at 2.
C8_Witness ==
    /\ tpc = "collapsed"
    /\ block.kind = "fact_2col"
    /\ block.rows = <<<<<<"2">>, TextV>>, <<<<"3", ".">>, TextV>>,
                      <<<<"4", " ", ")">>, TextV>>>>
    /\ rendered.kind = "ol_from_fact"
    /\ rendered.html[1].start = 2

-----------------------------------------------------------------------------
(* recompute_text_from_html_fragment on its own *)

Ol(items) == El("ol", "text-hidden", items)

Ul(items) == El("ul", "text-hidden", items)

Tr(cells) == El("tr", "", [c \in 1..Len(cells) |->
                              El("td", "", IF cells[c] = <<>> THEN <<>> ELSE <<Txt(cells[c])>>)])

\* The top-level nodes of the fragments the text is computed from
LinearNodes ==
    { P(TextBody), P(<<>>), P(TextBlank), H2(TextTitle),
      Ol(<<Li(TextA), Li(TextB)>>),
      Ol(<<Li(TextA), El("li", "", <<[Ol(<<Li(TextB)>>) EXCEPT !.type = "A"]>>)>>),
      [Ol(<<El("li", "", <<Txt(TextA), Ul(<<Li(TextB), Li(<<>>)>>)>>)>>)
          EXCEPT !.start = 3],
      Ul(<<El("li", "", <<Cmt(TextRaw)>>)>>),
      El("table", "", <<El("tbody", "", <<Tr(<<TextL, TextV>>), Tr(<<<<>>, <<>>>>)>>)>>),
      Aside(<<H2(TextTitle), P(TextOpen), P(TextDot)>>),
      Aside(<<H2(TextTitle), P(<<>>)>>),
      Aside(<<H2(TextTitle)>>),
      El("figure", "", <<El("img", "", <<>>),
                         El("figcaption", "", <<P(TextBody)>>)>>) }

MaxLinearNodes == 3

InitText ==
    /\ IdleJobs
    /\ IdleFolder
    /\ IdleTable
    /\ IdlePatch
    /\ IdleProc
    /\ StartAt("text", FragmentsOf(LinearNodes, MaxLinearNodes), {<<>>})

NextText == RecomputeText /\ UNCHANGED notFileVars

SpecText == InitText /\ [][NextText]_vars

-----------------------------------------------------------------------------
(* Properties of recompute_text_from_html_fragment *)

\* The semantic leaf nodes of a fragment: its paragraphs outside asides,
\* its list items at every depth, its table rows and its asides.
LeafNodes(html) ==
    LET inAside == Concat([i \in 1..Len(FindAll(html, "aside")) |->
                              FindAll(FindAll(html, "aside")[i].kids, "p")])
    IN  Len(FindAll(html, "p")) - Len(inAside)
          + Len(FindAll(html, "li"))
          + Len(FindAll(html, "tr"))
          + Len(FindAll(html, "aside"))

\* Some string below the node holds a character that is no whitespace.
HasText(n) == \E i \in 1..Len(Strings(n)) : Strip(Strings(n)[i]) # <<>>

\* The item has text of its own: a string or a comment among its children,
\* or text below a child that is no list and no table.
HasOwnText(li) ==
    \E c \in 1..Len(li.kids) :
        IF IsTag(li.kids[c])
        THEN li.kids[c].tag \notin {"ol", "ul", "table"} /\ HasText(li.kids[c])
        ELSE Strip(li.kids[c].text) # <<>>

\* The items with text of their own in a list, the lists directly below
\* its items included.
RECURSIVE ItemsWithTextFrom(_, _)
RECURSIVE ItemsWithTextBelow(_)
ItemsWithText(list_tag) ==
    ItemsWithTextFrom(SelectSeq(list_tag.kids, LAMBDA c : c.tag = "li"), 1)

ItemsWithTextFrom(lis, n) ==
    IF n > Len(lis) THEN 0
    ELSE (IF HasOwnText(lis[n]) THEN 1 ELSE 0)
           + ItemsWithTextBelow(SelectSeq(lis[n].kids, LAMBDA c : c.tag \in {"ol", "ul"}))
           + ItemsWithTextFrom(lis, n + 1)

ItemsWithTextBelow(nested) ==
    IF nested = <<>> THEN 0
    ELSE ItemsWithText(nested[1]) + ItemsWithTextBelow(Tail(nested))

\* The nodes the text has a line for: a top-level paragraph with text, an
\* item with text of its own in a top-level list, a row with a cell that
\* has text in a top-level table, a top-level aside whose first paragraph
\* has text.
RECURSIVE LineNodes(_)
LineNodes(html) ==
    IF html = <<>> THEN 0
    ELSE LET node == html[1]
             ps == FindAll(node.kids, "p")
             trs == FindAll(node.kids, "tr")
         IN  (IF node.tag = "p" THEN (IF HasText(node) THEN 1 ELSE 0)
              ELSE IF node.tag \in {"ol", "ul"} THEN ItemsWithText(node)
              ELSE IF node.tag = "aside"
                   THEN (IF ps # <<>> /\ HasText(ps[1]) THEN 1 ELSE 0)
              ELSE IF node.tag = "table"
                   THEN Len(SelectSeq(trs, LAMBDA tr :
                            \E c \in 1..Len(tr.kids) :
                                tr.kids[c].tag \in {"th", "td"} /\ HasText(tr.kids[c])))
              ELSE 0)
             + LineNodes(Tail(html))

NonEmptyLines(text) == SelectSeq(SplitLines(text), LAMBDA line : line # <<>>)

\* C9 as claimed: the text has as many non-empty lines as the fragment has
\* semantic leaf nodes.
C9_LinesEqualLeafNodes ==
    stage = "done" => Len(NonEmptyLines(text_content)) = LeafNodes(merged_stream)

\* C9, amended: the text has one non-empty line, and no empty one, for each
\* top-level paragraph with text, each item with text of its own in a
\* top-level list, each row with a non-empty cell in a top-level table and
\* each top-level aside whose first paragraph has text.
C9_LinesEqualLineNodes ==
    stage = "done" =>
        /\ Len(NonEmptyLines(text_content)) = LineNodes(merged_stream)
        /\ Len(SplitLines(text_content)) = LineNodes(merged_stream)

\* C9's case: a list whose second item holds only a nested list, and a
\* table with an empty row: three lines for five leaf nodes.
C9_Witness ==
    /\ stage = "done"
    /\ merged_stream =
          <<Ol(<<Li(TextA), El("li", "", <<[Ol(<<Li(TextB)>>) EXCEPT !.type = "A"]>>)>>),
            El("table", "", <<El("tbody", "", <<Tr(<<TextL, TextV>>), Tr(<<<<>>, <<>>>>)>>)>>)>>
    /\ text_content = <<"1", ".", " ", "a", "\n", "\n",
                        " ", " ", "A", ".", " ", "b", "\n", "\n",
                        "l", " ", "|", " ", "v">>


-----------------------------------------------------------------------------
(* patch_source_file *)

\* insert_after_id, as process_file passes it
AnchorId == "parent-p1"

\* soup.find(id=anchor_id): the first tag in document order with the id, as a
\* sequence of one node, or <<>> for None
FindId(soup, anchor_id) ==
    LET hits == SelectSeq(Descendants(soup),
                          LAMBDA n : IsTag(n) /\ n.attr_id = anchor_id)
    IN  IF hits = <<>> THEN <<>> ELSE <<hits[1]>>

\* Line 507: frag.contents without the whitespace-only strings
TopLevelNodes(frag) ==
    SelectSeq(frag, LAMBDA n : IsTag(n) \/ Strip(n.text) # <<>>)

\* Lines 524-530: aria-hidden="true" on every span
RECURSIVE SetAriaHidden(_)
SetAriaHidden(kids) ==
    [i \in 1..Len(kids) |->
        [kids[i] EXCEPT !.aria_hidden = IF kids[i].tag = "span" THEN "true" ELSE @,
                        !.kids = SetAriaHidden(kids[i].kids)]]

\* (every span is counted, marked before or not)
CountedSpans(soup) == Len(FindAll(soup, "span"))

\* updated_spans
UpdatedSpans(soup) ==
    Len(SelectSeq(FindAll(soup, "span"), LAMBDA sp : sp.aria_hidden # "true"))

\* (the nodes go behind the anchor's children)
InsertNodesBehind(soup, nodes, anchor_id) ==
    LET anchor == FindId(soup, anchor_id)
        body == FindAll(soup, "body")
    IN  IF anchor # <<>> THEN SetKids(soup, anchor[1].id, anchor[1].kids \o nodes)
        ELSE IF body # <<>> THEN SetKids(soup, body[1].id, body[1].kids \o nodes)
        ELSE soup \o nodes

\* Lines 512-521: anchor.insert(0, node) for the nodes in reverse, or
\* (soup.body or soup).append(node) for the nodes in order
InsertNodes(soup, nodes, anchor_id) ==
    LET anchor == FindId(soup, anchor_id)
        body == FindAll(soup, "body")
    IN  IF anchor # <<>> THEN SetKids(soup, anchor[1].id, nodes \o anchor[1].kids)
        ELSE IF body # <<>> THEN SetKids(soup, body[1].id, body[1].kids \o nodes)
        ELSE soup \o nodes

\* patch_source_file's second return value, without its wording
Note(kind, updated, spans) == [kind |-> kind, updated |-> updated, spans |-> spans]

PatchError == Note("Patch error", 0, 0)

\* (the nodes take the place of the anchor's children)
PatchReplacingChildren(content, fragment, anchor_id) ==
    LET soup == Soup(content, <<>>)
        nodes == TopLevelNodes(Soup(fragment, <<0>>))
        anchor == FindId(soup, anchor_id)
        inserted == IF anchor # <<>> THEN SetKids(soup, anchor[1].id, nodes)
                    ELSE nodes
    IN  IF nodes = <<>>
        THEN [patched |-> FALSE, note |-> Note("Insertion fragment is empty", 0, 0),
              soup |-> soup]
        ELSE [patched |-> TRUE,
              note |-> Note("Inserted", UpdatedSpans(inserted),
                            Len(FindAll(inserted, "span"))),
              soup |-> SetAriaHidden(inserted)]

\* patch_source_file from the parse (line 503) to the tree that is written
\* (line 534), when nothing raises: the return values and soup
PatchSourceFile(content, fragment, anchor_id) ==
    LET soup == Soup(content, <<>>)
        nodes == TopLevelNodes(Soup(fragment, <<0>>))
        inserted == InsertNodes(soup, nodes, anchor_id)
    IN  IF nodes = <<>>
        THEN [patched |-> FALSE, note |-> Note("Insertion fragment is empty", 0, 0),
              soup |-> soup]
        ELSE [patched |-> TRUE,
              note |-> Note(IF FindId(soup, anchor_id) # <<>>
                            THEN "Inserted" ELSE "Anchor not found; appended",
                            UpdatedSpans(inserted), Len(FindAll(inserted, "span"))),
              soup |-> SetAriaHidden(inserted)]

\* What the file system does to one call: nothing raises; the read raises
\* (the file is gone or unreadable); shutil.copy2 or the open of write_text
\* raises; the write raises after the open has truncated the file (the disk
\* is full, or str(soup) cannot be encoded)
IoOutcomes == {"ok", "read raises", "open raises", "write raises"}

MaxPatchCalls == 3

\* One call of patch_source_file(original_path, insertion_fragment_html)
Patch ==
    /\ ppc = "call"
    /\ patch_calls < MaxPatchCalls
    /\ \E io \in IoOutcomes :
          LET res == PatchSourceFile(source_file, insertion_fragment, AnchorId)
              done(ok, note, soup, content, attempts) ==
                  /\ patched' = ok
                  /\ patch_note' = note
                  /\ patch_soup' = soup
                  /\ source_file' = content
                  /\ read_attempts' = attempts
                  /\ file_encoding' = IF content = source_file
                                      THEN file_encoding ELSE "utf-8"
                  /\ patch_successes' = IF ok THEN patch_successes + 1
                                        ELSE patch_successes
              attempts == IF file_encoding = "utf-8" THEN <<"utf-8">>
                          ELSE <<"utf-8", "cp1252">>
          IN  IF io = "read raises"
              THEN done(FALSE, PatchError, <<>>, source_file, <<"utf-8">>)
              ELSE IF ~res.patched
              THEN done(FALSE, res.note, res.soup, source_file, attempts)
              ELSE IF io = "open raises"
              THEN done(FALSE, PatchError, res.soup, source_file, attempts)
              ELSE IF io = "write raises"
              THEN done(FALSE, PatchError, res.soup, <<>>, attempts)
              ELSE done(TRUE, res.note, res.soup, ToHtml(res.soup), attempts)
    /\ previous_file' = source_file
    /\ patch_calls' = patch_calls + 1
    /\ UNCHANGED <<ppc, original_file, insertion_fragment>>

Body(kids) == El("body", "", kids)

Anchor(kids) == [El("div", "", kids) EXCEPT !.attr_id = AnchorId]

Span(s) == El("span", "", <<Txt(s)>>)

Main(kids) == El("main", "", kids)

\* The source files: an anchor with children, an anchor without, two
\* elements with the anchor's id, a body without the anchor, no body, nothing
SourceFiles ==
    { <<Body(<<Anchor(<<P(TextA), Txt(TextB)>>), Span(TextB)>>)>>,
      <<Body(<<Anchor(<<>>)>>)>>,
      <<Body(<<P(TextA), Anchor(<<Span(TextA)>>), Anchor(<<P(TextB)>>)>>)>>,
      <<Body(<<P(TextA), Txt(TextB)>>)>>,
      <<P(TextA), Txt(TextB)>>,
      <<>> }

\* The top-level nodes of a fragment: <main>, the line break behind it, a
\* footer, text, an element with a span, an element with the anchor's id
PatchNodes ==
    { Main(<<P(TextA)>>), Txt(<<"\n">>), El("footer", "", <<Span(TextB)>>),
      Txt(TextA), Anchor(<<>>) }

MaxPatchNodes == 2

InitPatch ==
    /\ IdleJobs
    /\ IdleFolder
    /\ IdleFile
    /\ IdleTable
    /\ IdleProc
    /\ ppc = "call"
    /\ original_file \in SourceFiles
    /\ source_file = original_file
    /\ previous_file = original_file
    /\ \E f \in FragmentsOf(PatchNodes, MaxPatchNodes) : insertion_fragment = ToHtml(f)
    /\ file_encoding \in {"utf-8", "legacy"}
    /\ patch_soup = <<>>
    /\ patched = FALSE
    /\ patch_note = [kind |-> "none"]
    /\ patch_calls = 0
    /\ patch_successes = 0
    /\ read_attempts = <<>>

NextPatch == Patch /\ UNCHANGED notPatchVars

SpecPatch == InitPatch /\ [][NextPatch]_vars


(* Properties of patch_source_file *)

\* The identities of nodes, in order
IdsOf(nodes) == [i \in 1..Len(nodes) |-> nodes[i].id]

\* A node with the identity of a node of the fragment
IsNew(n) == n.id # <<>> /\ n.id[1] = 0

\* The children of the element the nodes went into, or the top of the tree
\* when they went to the document root
TargetKids(before, after) ==
    LET anchor == FindId(before, AnchorId)
        body == FindAll(before, "body")
    IN  IF anchor # <<>> THEN NodeById(after, anchor[1].id).kids
        ELSE IF body # <<>> THEN NodeById(after, body[1].id).kids
        ELSE after

\* A node without what set_aria_hidden and the insertion change
Own(n) == [tag |-> n.tag, cls |-> n.cls, text |-> n.text, attr_id |-> n.attr_id,
           id |-> n.id]

RECURSIVE Repeat(_, _)
Repeat(seq, k) == IF k = 0 THEN <<>> ELSE seq \o Repeat(seq, k - 1)

\* The source file with k copies of the fragment's top-level nodes at the
\* head of the anchor, or at the end of the body or of the document
WithCopies(k) ==
    LET copies == Repeat(TopLevelNodes(insertion_fragment), k)
    IN  ToHtml(SetAriaHidden(InsertNodes(Soup(original_file, <<>>), copies, AnchorId)))

\* Every call so far has returned True, and there are at least `least`
Succeeded(least) == patch_calls >= least /\ patch_successes = patch_calls

\* The nodes of the last call stand ahead of every other child of their parent
NewestAhead ==
    LET kids == TargetKids(Soup(previous_file, <<>>), patch_soup)
    IN  \A i, j \in 1..Len(kids) : IsNew(kids[i]) /\ ~IsNew(kids[j]) => i < j

\* The nodes of the last call stand behind every other child of their parent
NewestBehind ==
    LET kids == TargetKids(Soup(previous_file, <<>>), patch_soup)
    IN  \A i, j \in 1..Len(kids) : IsNew(kids[i]) /\ ~IsNew(kids[j]) => j < i

\* The fragment brings the anchor's id into a file that has none
BringsAnchor ==
    FindId(original_file, AnchorId) = <<>> /\ FindId(insertion_fragment, AnchorId) # <<>>

\* C11, as stated: after k >= 1 successful calls with the same fragment the file
\* holds exactly k copies of the fragment's top-level nodes, the copy of the
\* second and of every later run ahead of the earlier ones, and the file
\* differs from the file before the last run.
C11_EachRunInsertsAhead ==
    Succeeded(1) =>
        /\ source_file = WithCopies(patch_calls)
        /\ source_file # previous_file
        /\ patch_calls >= 2 => NewestAhead

\* C11, as the code has it: after k >= 1 successful calls with the same
\* fragment, which does not bring the anchor's id into a file without it, the
\* file holds exactly k copies of the fragment's top-level nodes and differs
\* from the file before the last run; each run's copy stands ahead of the
\* earlier ones at the head of the anchor when the file has the anchor, and
\* behind them at the end of the body (or of the document) when it has not.
C11_EachRunAddsACopy ==
    (Succeeded(1) /\ ~BringsAnchor) =>
        /\ source_file = WithCopies(patch_calls)
        /\ source_file # previous_file
        /\ patch_calls >= 2 =>
                IF FindId(original_file, AnchorId) # <<>> THEN NewestAhead
                ELSE NewestBehind

\* Two runs on a file with an anchor that has children
C11_Witness ==
    /\ Succeeded(2)
    /\ FindId(original_file, AnchorId) # <<>>
    /\ FindId(original_file, AnchorId)[1].kids # <<>>
    /\ Len(TopLevelNodes(insertion_fragment)) = 2
    /\ FindId(insertion_fragment, AnchorId) = <<>>

\* Two runs on a file without the anchor: the second copy is behind the first
C11_AppendedBehind ==
    /\ Succeeded(2)
    /\ FindId(original_file, AnchorId) = <<>>
    /\ FindAll(original_file, "body") # <<>>
    /\ ~BringsAnchor
    /\ ~NewestAhead

\* The spans below kids that do not carry aria-hidden="true"
Unmarked(kids) ==
    SelectSeq(FindAll(kids, "span"), LAMBDA sp : sp.aria_hidden # "true")

\* C24, as stated: after a successful call every span of the written file
\* carries aria-hidden="true", 0 <= updated <= total, and patching a file
\* whose spans were all marked before the call reports updated = 0.
C24_MarkedFileReportsZero ==
    (patch_calls >= 1 /\ patched) =>
        /\ Unmarked(source_file) = <<>>
        /\ patch_note.updated \in 0..patch_note.spans
        /\ (FindAll(previous_file, "span") # <<>> /\ Unmarked(previous_file) = <<>>)
                => patch_note.updated = 0

\* C24, as the code has it: after a successful call every span of the
\* written file carries aria-hidden="true", total is the number of spans of
\* the written file, 0 <= updated <= total, and updated is the number of
\* spans without aria-hidden="true" in the file before the call and in the
\* fragment together: it is 0 exactly when neither holds such a span.
C24_UpdatedCountsFileAndFragment ==
    (patch_calls >= 1 /\ patched) =>
        /\ Unmarked(source_file) = <<>>
        /\ Unmarked(patch_soup) = <<>>
        /\ patch_note.spans = Len(FindAll(source_file, "span"))
        /\ patch_note.updated \in 0..patch_note.spans
        /\ patch_note.updated =
              Len(Unmarked(previous_file)) + Len(Unmarked(insertion_fragment))
        /\ patch_note.updated = 0 <=>
              (Unmarked(previous_file) = <<>> /\ Unmarked(insertion_fragment) = <<>>)

\* C24's case: a second call on a file whose spans the first call marked,
\* with a fragment that brings no span: updated = 0 of at least one span.
C24_Witness ==
    /\ Succeeded(2)
    /\ FindAll(previous_file, "span") # <<>>
    /\ Unmarked(previous_file) = <<>>
    /\ FindAll(insertion_fragment, "span") = <<>>
    /\ patch_note.updated = 0
    /\ patch_note.spans >= 1

\* A second call on a file whose spans are all marked, with a fragment that
\* brings a span: updated = 1.
C24_FragmentSpanCounted ==
    /\ Succeeded(2)
    /\ FindAll(previous_file, "span") # <<>>
    /\ Unmarked(previous_file) = <<>>
    /\ patch_note.updated >= 1

\* C12: on success the fragment's top-level nodes are, in the fragment's order,
\* the first children of the first element with the anchor's id, ahead of its
\* previous children in their order; without such an element they are the
\* last children of the body, or of the document when there is no body.  Every
\* node the document had is still there, in the same document order and with
\* the same content, and the file is the tree written out.
C12_InsertedAtAnchorOrAppended ==
    (patch_calls > 0 /\ patched) =>
        LET before == Soup(previous_file, <<>>)
            anchor == FindId(before, AnchorId)
            body == FindAll(before, "body")
            nodes == TopLevelNodes(Soup(insertion_fragment, <<0>>))
            kids == TargetKids(before, patch_soup)
            old == SelectSeq(Descendants(patch_soup), LAMBDA n : ~IsNew(n))
        IN  /\ IdsOf(kids) =
                    IF anchor # <<>> THEN IdsOf(nodes) \o IdsOf(anchor[1].kids)
                    ELSE IF body # <<>> THEN IdsOf(body[1].kids) \o IdsOf(nodes)
                    ELSE IdsOf(before) \o IdsOf(nodes)
            /\ \A i \in 1..Len(nodes) :
                    ToHtml(<<NodeById(patch_soup, nodes[i].id)>>)
                        = ToHtml(SetAriaHidden(<<nodes[i]>>))
            /\ [i \in 1..Len(old) |-> Own(old[i])]
                    = [i \in 1..Len(Descendants(before)) |-> Own(Descendants(before)[i])]
            /\ source_file = ToHtml(patch_soup)

\* Two nodes have gone ahead of the two children of the anchor
C12_Witness ==
    /\ patch_calls = 1
    /\ patched
    /\ Len(TopLevelNodes(insertion_fragment)) = 2
    /\ LET anchor == FindId(previous_file, AnchorId)
       IN  anchor # <<>> /\ Len(anchor[1].kids) = 2
    /\ patch_note.kind = "Inserted"

\* C13, as stated: a call that returns False returns a note and leaves the
\* source file as it was.
C13_FailedPatchLeavesFile ==
    (patch_calls > 0 /\ ~patched) =>
        /\ patch_note.kind \notin {"none", ""}
        /\ source_file = previous_file

\* What holds of a failed call: it returns (False, note); the file is as it
\* was unless the write itself raised.
C13_FailedPatchReturnsNote ==
    (patch_calls > 0 /\ ~patched) =>
        /\ patch_note.kind \in {"Patch error", "Insertion fragment is empty"}
        /\ source_file \in {previous_file, <<>>}

\* The write raised: the call returned a note and the file has lost its content
C13_WriteFails ==
    /\ patch_calls = 1
    /\ ~patched
    /\ patch_note = PatchError
    /\ previous_file # <<>>
    /\ source_file = <<>>


-----------------------------------------------------------------------------
(* detect_fact_table beyond line 759 *)

\* Twice statistics.median(xs), the name line 759 means: the middle value,
\* or the mean of the two middle values
Median2(xs) ==
    LET sorted == StableSort(xs, LAMBDA a, b : a < b)
        n == Len(xs)
    IN  IF n % 2 = 1 THEN 2 * sorted[(n + 1) \div 2]
        ELSE sorted[n \div 2] + sorted[n \div 2 + 1]

\* " ".join(it['text'] for it in sorted(items, key=x)), tidied
LineText(items) ==
    LET sorted == StableSort(items, ByX)
    IN  TidyText(Join([i \in 1..Len(sorted) |-> sorted[i].text], <<" ">>))

\* Lines 754-761 with median bound: label_lines; x2 is twice the line's x
FactLabelRecords(all) ==
    LET found == FactLabelLines(all)
        labs(ln) == SelectSeq(ln.items, LAMBDA it : it.cls = FactLabelCls)
        each == [i \in 1..Len(found) |->
                    [y |-> found[i].y,
                     text |-> LineText(labs(found[i])),
                     x2 |-> Median2([n \in 1..Len(labs(found[i])) |-> labs(found[i])[n].x]),
                     items |-> labs(found[i])]]
    IN  SelectSeq(each, LAMBDA r : r.text # <<>>)

\* Lines 776-806: the row of label line k, the tokens it uses and the x of
\* its value tokens
FactRowOf(found, label_lines, k) ==
    LET lab == label_lines[k]
        above(y) == IF k > 1 THEN 2 * y >= label_lines[k - 1].y + lab.y
                    ELSE y >= lab.y - Far
        below(y) == IF k < Len(label_lines)
                    THEN 10 * y <= 5 * (lab.y + label_lines[k + 1].y)
                                     + 3 * (label_lines[k + 1].y - lab.y)
                    ELSE y <= lab.y + Far
        vs(ln) == IF above(ln.y) /\ below(ln.y)
                  THEN SelectSeq(ln.items, LAMBDA it : it.cls = FactValueCls)
                  ELSE <<>>
        vals == SelectSeq([i \in 1..Len(found) |-> vs(found[i])], LAMBDA v : v # <<>>)
        segs == SelectSeq([i \in 1..Len(vals) |-> LineText(vals[i])], LAMBDA t : t # <<>>)
        taken == Concat(vals)
    IN  [cells |-> <<lab.text, TidyText(Join(segs, <<" ">>))>>,
         used |-> {lab.items[i].idx : i \in 1..Len(lab.items)}
                     \cup {taken[i].idx : i \in 1..Len(taken)},
         xs |-> [i \in 1..Len(taken) |-> taken[i].x]]

\* detect_fact_table(tokens, min_rows=least) as it reads with median bound to
\* statistics.median
DetectFactTableWithMedian(all, least) ==
    LET toks == SelectSeq(all, LAMBDA t : t.cls \in {FactLabelCls, FactValueCls})
        found == GroupByY(toks, FactYTol)
        label_lines == FactLabelRecords(all)
        lx2 == [i \in 1..Len(label_lines) |-> label_lines[i].x2]
        spread2 == (CHOOSE m \in Range(lx2) : \A x \in Range(lx2) : x <= m)
                     - (CHOOSE m \in Range(lx2) : \A x \in Range(lx2) : m <= x)
        each == [k \in 1..Len(label_lines) |-> FactRowOf(found, label_lines, k)]
        table_rows == [k \in 1..Len(each) |-> each[k].cells]
        with_value == Len(SelectSeq(table_rows, LAMBDA r : r[2] # <<>>))
        value_x_all == Concat([k \in 1..Len(each) |-> each[k].xs])
        used == UNION {each[k].used : k \in 1..Len(each)}
        ys == {all[i + 1].y : i \in used}
    IN  IF toks = <<>> THEN NoBlock
        ELSE IF XSpan(toks) <= 0 THEN NoBlock
        ELSE IF Len(label_lines) < least THEN NoBlock
        ELSE IF 100 * spread2 > 14 * XSpan(toks) THEN NoBlock
        ELSE IF Len(table_rows) < least \/ 10 * with_value < 6 * Len(table_rows)
        THEN NoBlock
        ELSE IF /\ value_x_all # <<>>
                /\ 10 * (2 * Median2(value_x_all) - Median2(lx2)) < 6 * XSpan(toks)
        THEN NoBlock
        ELSE [kind |-> "fact_2col",
              header |-> <<>>,
              rows |-> table_rows,
              html |-> BuildHtmlTable(<<>>, table_rows),
              used_idx |-> used,
              ymin |-> CHOOSE m \in ys : \A y \in ys : m <= y,
              ymax |-> CHOOSE m \in ys : \A y \in ys : y <= m]

\* C16, as stated: for a token set with at least min_rows label lines, a label
\* spread of at most 7% of the span, a value in at least 60% of the rows and
\* the median value x at least 15% of the span right of the median label x
\* (the tests of lines 762-814), detect_fact_table returns the fact_2col block
\* with one [label, value] row per label line.
C16_WellFormedCandidateAccepted ==
    tpc = "detected" =>
        LET expected == DetectFactTableWithMedian(tokens, min_rows)
        IN  IsBlock(expected) =>
                /\ fact = expected
                /\ fact.kind = "fact_2col"
                /\ Len(fact.rows) = Len(FactLabelLines(tokens))

\* A well-formed candidate of two rows, each with a value, and what
\* detect_fact_table did with it
C16_WellFormedCandidateRaises ==
    /\ tpc = "detected"
    /\ min_rows = 2
    /\ LET expected == DetectFactTableWithMedian(tokens, min_rows)
       IN  /\ IsBlock(expected)
           /\ Len(expected.rows) = 2
           /\ \A r \in 1..2 : expected.rows[r][2] # <<>>
    /\ fact = NameError


-----------------------------------------------------------------------------
(* resolve_overlaps *)

\* len(b['used_idx'])
UsedCount(b) == Cardinality(b.used_idx)

\* max(1, len(b['used_idx']))
AtLeastOne(n) == IF n < 1 THEN 1 ELSE n

\* (a block is accepted with an overlap of 30% too)
AcceptsAtMost(b, used_all) ==
    10 * Cardinality(b.used_idx \cap used_all) <= 3 * AtLeastOne(UsedCount(b))

\* Lines 829-830: overlap < 0.3
Accepts(b, used_all) ==
    10 * Cardinality(b.used_idx \cap used_all) < 3 * AtLeastOne(UsedCount(b))

\* Line 825: blocks.sort(key=len(used_idx), reverse=True); the sort is stable
ByUsedCount(bs) == StableSort(bs, LAMBDA a, b : UsedCount(a) > UsedCount(b))

\* Lines 826-833, from sorted[k] on
RECURSIVE Accept(_, _, _, _)
Accept(sorted, k, accepted, used_all) ==
    IF k > Len(sorted) THEN accepted
    ELSE IF Accepts(sorted[k], used_all)
         THEN Accept(sorted, k + 1, Append(accepted, sorted[k]),
                     used_all \cup sorted[k].used_idx)
    ELSE Accept(sorted, k + 1, accepted, used_all)

\* resolve_overlaps(blocks); a block that is None is dropped first
ResolveOverlaps(bs) == Accept(ByUsedCount(SelectSeq(bs, IsBlock)), 1, <<>>, {})

\* Line 849: blocks = resolve_overlaps(blocks)
Resolve ==
    /\ tpc = "detected"
    /\ chosen' = ResolveOverlaps(blocks)
    /\ tpc' = "resolved"
    /\ UNCHANGED <<tokens, y_tol, min_rows, grouped, regrouped, comparison, fact,
                   block, rendered, blocks, page_html>>

\* A block that uses the tokens of used
BlockUsing(kind, used) ==
    [kind |-> kind, header |-> <<>>, rows |-> <<>>, html |-> <<>>, used_idx |-> used,
     ymin |-> 0, ymax |-> 0]

\* The blocks a caller may pass: ten tokens; ten tokens, three of them among
\* the first ten; four tokens, one of them among the first ten; three tokens,
\* two of them among the first ten; no token; the first ten tokens again; None
SomeBlocks ==
    { BlockUsing("comparison_3col", 0..9), BlockUsing("fact_2col", 7..16),
      BlockUsing("fact_2col", 9..12), BlockUsing("fact_2col", 8..10),
      BlockUsing("fact_2col", {}), BlockUsing("fact_2col", 0..9), NoBlock }

MaxBlocks == 3

InitResolve ==
    /\ IdleJobs
    /\ IdleFolder
    /\ IdleFile
    /\ IdlePatch
    /\ IdleProc
    /\ tpc = "detected"
    /\ blocks \in FragmentsOf(SomeBlocks, MaxBlocks)
    /\ tokens = <<>>
    /\ y_tol = 0
    /\ min_rows = 0
    /\ grouped = <<>>
    /\ regrouped = <<>>
    /\ comparison = NoBlock
    /\ fact = NoBlock
    /\ block = NoBlock
    /\ rendered = NoBlock
    /\ chosen = <<>>
    /\ page_html = <<>>

NextResolve == Resolve /\ UNCHANGED notTableVars

SpecResolve == InitResolve /\ [][NextResolve]_vars

\* The blocks of bs at the positions that mask keeps
Kept(bs, mask) ==
    LET at == SelectSeq([k \in 1..Len(bs) |-> k], LAMBDA k : mask[k])
    IN  [i \in 1..Len(at) |-> bs[at[i]]]

\* The tokens of the blocks before position k that mask keeps
ClaimedBefore(bs, mask, k) == UNION {bs[j].used_idx : j \in {i \in 1..(k - 1) : mask[i]}}

\* C17: resolve_overlaps takes the blocks in descending order of used-token
\* count and accepts a block exactly when less than 30% of its tokens are used
\* by the blocks accepted before it: the largest block is accepted, a rejected
\* block claims nothing, and the accepted blocks are returned as they came.
C17_GreedyBelowThirtyPercent ==
    tpc = "resolved" =>
        LET given == SelectSeq(blocks, IsBlock)
            order == ByUsedCount(given)
        IN  /\ \A i, j \in 1..Len(order) : i < j => UsedCount(order[i]) >= UsedCount(order[j])
            /\ \E mask \in [1..Len(order) -> BOOLEAN] :
                  /\ chosen = Kept(order, mask)
                  /\ \A k \in 1..Len(order) :
                        mask[k] <=>
                            (10 * Cardinality(order[k].used_idx \cap ClaimedBefore(order, mask, k))
                                < 3 * AtLeastOne(UsedCount(order[k])))
            /\ given # <<>> =>
                  /\ chosen # <<>>
                  /\ chosen[1] = order[1]
                  /\ \A i \in 1..Len(given) : UsedCount(chosen[1]) >= UsedCount(given[i])
            /\ \A i \in 1..Len(chosen) : chosen[i] \in Range(blocks)

\* Three blocks: the largest accepted, one with exactly 30% of its tokens
\* claimed rejected, one with 25% claimed accepted
C17_Witness ==
    /\ tpc = "resolved"
    /\ Len(blocks) = 3
    /\ Len(chosen) = 2
    /\ UsedCount(chosen[2]) = 4
    /\ \E i \in 1..3 :
          /\ IsBlock(blocks[i])
          /\ blocks[i] \notin Range(chosen)
          /\ 10 * Cardinality(blocks[i].used_idx \cap chosen[1].used_idx)
                = 3 * UsedCount(blocks[i])


-----------------------------------------------------------------------------
(* extract_structured_dom_from_html *)

\* flatten_paragraph
FlattenParagraph(node) == CollapseSpaces(Strip(GetTextSep(node)))

\* ft_norm
FtNorm(titles) ==
    {Norm(titles[i]) : i \in {k \in 1..Len(titles) : Strip(titles[k]) # <<>>}}

\* Line 1040: the nodes below the container: #PageContainer, .PageContainer,
\* the body, or the document
ContainerDescendants(soup) ==
    LET by_id == FindId(soup, "PageContainer")
        by_class == SelectSeq(Descendants(soup),
                              LAMBDA n : IsTag(n) /\ n.cls = "PageContainer")
        body == FindAll(soup, "body")
    IN  IF by_id # <<>> THEN Descendants(by_id[1].kids)
        ELSE IF by_class # <<>> THEN Descendants(by_class[1].kids)
        ELSE IF body # <<>> THEN Descendants(body[1].kids)
        ELSE Descendants(soup)

\* A paragraph or heading of the result
Hidden(tag, t) == El(tag, "text-hidden", IF t = <<>> THEN <<>> ELSE <<Txt(t)>>)

\* Lines 1066-1068: the aside of a feature; the id is derived from the title
FeatureAside(title, next_p) ==
    El("aside", "", << [Hidden("h2", title) EXCEPT !.attr_id = "feat"],
                       Hidden("p", next_p) >>)

\* Lines 1094-1098: the figure of an img
FigureOf(node) ==
    El("figure", "", << [El("img", "", <<>>) EXCEPT !.src = node.src, !.alt = node.alt],
                        El("figcaption", "", <<Hidden("p", node.alt)>>) >>)

\* Lines 1060-1062: the first sibling behind the node that is not a
\* whitespace-only string
RECURSIVE SkipBlankStrings(_)
SkipBlankStrings(sibs) ==
    IF sibs # <<>> /\ ~ IsTag(sibs[1]) /\ Strip(sibs[1].text) = <<>>
    THEN SkipBlankStrings(Tail(sibs))
    ELSE sibs

ShortLen == 50

\* Lines 1047-1099: what one node of the walk adds to result_parts.  A
\* sibling that is a string has name None, and None.lower() raises
\* AttributeError.
Harvest(soup, node, titles) ==
    LET text == FlattenParagraph(node)
        sibling == SkipBlankStrings(SiblingsAfter(soup, node.id))
        none == [raised |-> FALSE, parts |-> <<>>]
        one(el) == [raised |-> FALSE, parts |-> <<el>>]
    IN  IF ~ IsTag(node) THEN none
        ELSE IF node.tag \in {"h2", "p"}
        THEN IF text # <<>> /\ Lower(text) \in FtNorm(titles)
             THEN IF sibling = <<>> THEN one(FeatureAside(text, <<>>))
                  ELSE IF ~ IsTag(sibling[1]) THEN [raised |-> TRUE, parts |-> <<>>]
                  ELSE IF sibling[1].tag = "p"
                       THEN one(FeatureAside(text, FlattenParagraph(sibling[1])))
                  ELSE one(FeatureAside(text, <<>>))
             ELSE IF text = <<>> THEN none
             ELSE IF node.tag = "h2" THEN one(Hidden("h2", text))
             ELSE IF Len(text) < ShortLen /\ node.cls \in {"heading", "title"}
                  THEN one(Hidden("h2", text))
             ELSE one(Hidden("p", text))
        ELSE IF node.tag = "img"
        THEN IF Strip(node.src) # <<>> THEN one(FigureOf(node)) ELSE none
        ELSE none

\* extract_structured_dom_from_html(html_src, feature_titles): "".join of
\* result_parts as html.parser reads it, or the call raises
ExtractStructuredDomFromHtml(html, titles) ==
    LET soup == Soup(html, <<>>)
        nodes == ContainerDescendants(soup)
        each == [i \in 1..Len(nodes) |-> Harvest(soup, nodes[i], titles)]
    IN  [raised |-> \E i \in 1..Len(each) : each[i].raised,
         html |-> Concat([i \in 1..Len(each) |-> each[i].parts])]

\* process_file, line 1130
Extract ==
    /\ fpc = "extract"
    /\ LET r == ExtractStructuredDomFromHtml(html_src, feature_titles)
       IN  IF r.raised
           THEN fpc' = "raised" /\ structured_dom' = structured_dom
           ELSE fpc' = "tables" /\ structured_dom' = r.html
    /\ UNCHANGED <<html_src, feature_titles, ptable_stream, use_dom_tables_only,
                   patch_enabled, outputs, info>>

\* <img src=s alt=alt_text>
Img(s, alt_text) == [El("img", "", <<>>) EXCEPT !.src = s, !.alt = alt_text]

\* The nodes of a page: a heading and a paragraph that are a feature title,
\* paragraphs, one of them with a heading class, a blank string, text, an
\* image, a container
ExtractNodes ==
    { H2(TextTitle), P(TextTitle), P(TextBody), P(TextNext),
      El("p", "heading", <<Txt(TextBody)>>), Txt(TextBlank), Txt(TextRaw),
      Img(TextA, TextB), El("div", "", <<P(TextTitle), P(TextBody)>>) }

MaxExtractNodes == 3

InitExtract ==
    /\ IdleJobs
    /\ IdleFolder
    /\ IdleFile
    /\ IdleTable
    /\ IdlePatch
    /\ fpc = "extract"
    /\ \E f \in FragmentsOf(ExtractNodes, MaxExtractNodes) :
          html_src \in {ToHtml(f), ToHtml(<<P(TextBody), Body(f)>>),
                        ToHtml(<<P(TextNext), El("div", "PageContainer", f)>>)}
    /\ feature_titles \in {<<>>, <<TextTitle>>}
    /\ structured_dom = <<>>
    /\ ptable_stream = <<>>
    /\ use_dom_tables_only = FALSE
    /\ patch_enabled = FALSE
    /\ outputs = NoFiles
    /\ info = NoRow

NextExtract == Extract /\ UNCHANGED notProcVars

SpecExtract == InitExtract /\ [][NextExtract]_vars

\* The paragraphs that stand right behind a feature title, whitespace-only
\* strings apart
FollowsFeature(html, titles) ==
    LET soup == Soup(html, <<>>)
        nodes == ContainerDescendants(soup)
    IN  SelectSeq(nodes, LAMBDA n :
            \E i \in 1..Len(nodes) :
                LET sib == SkipBlankStrings(SiblingsAfter(soup, nodes[i].id))
                IN  /\ nodes[i].tag \in {"h2", "p"}
                    /\ FlattenParagraph(nodes[i]) # <<>>
                    /\ Lower(FlattenParagraph(nodes[i])) \in FtNorm(titles)
                    /\ sib # <<>>
                    /\ sib[1].id = n.id
                    /\ sib[1].tag = "p")

\* The top-level paragraphs and headings of a stream with the text t
Standalone(stream, t) ==
    SelectSeq(stream, LAMBDA n : n.tag \in {"p", "h2"} /\ GetText(n) = t)

\* The paragraphs and headings of the page with the text t that do not stand
\* behind a feature title and are no feature title themselves
Unconsumed(html, titles, t) ==
    LET soup == Soup(html, <<>>)
        behind == FollowsFeature(html, titles)
    IN  SelectSeq(ContainerDescendants(soup), LAMBDA n :
            /\ n.tag \in {"p", "h2"}
            /\ FlattenParagraph(n) = t
            /\ Lower(t) \notin FtNorm(titles)
            /\ \A i \in 1..Len(behind) : behind[i].id # n.id)

\* C18, as stated: the paragraph behind a feature title is consumed by the
\* match: its text is in the aside, and the result holds a standalone
\* paragraph or heading with that text only for the nodes of the page that
\* carry the text and stand behind no feature title.
C18_FollowingParagraphConsumed ==
    fpc = "tables" =>
        \A n \in Range(FollowsFeature(html_src, feature_titles)) :
            LET t == FlattenParagraph(n)
            IN  /\ \E a \in Range(structured_dom) :
                      a.tag = "aside" /\ GetText(a.kids[2]) = t
                /\ Len(Standalone(structured_dom, t))
                      = Len(Unconsumed(html_src, feature_titles, t))

\* What holds of the code: the text is in the aside, and the paragraph is
\* harvested once more on its own
C18_FollowingParagraphEmittedTwice ==
    fpc = "tables" =>
        \A n \in Range(FollowsFeature(html_src, feature_titles)) :
            LET t == FlattenParagraph(n)
                behind == SelectSeq(FollowsFeature(html_src, feature_titles),
                                    LAMBDA m : FlattenParagraph(m) = t
                                               /\ Lower(t) \notin FtNorm(feature_titles))
            IN  /\ \E a \in Range(structured_dom) :
                      a.tag = "aside" /\ GetText(a.kids[2]) = t
                /\ Len(Standalone(structured_dom, t))
                      = Len(Unconsumed(html_src, feature_titles, t)) + Len(behind)

\* A feature title with one paragraph behind it, and the paragraph is in the
\* result twice: in the aside and behind it
C18_EmittedTwice ==
    /\ fpc = "tables"
    /\ html_src = <<H2(TextTitle), Txt(TextBlank), P(TextBody)>>
    /\ feature_titles = <<TextTitle>>
    /\ structured_dom = <<FeatureAside(TextTitle, TextBody), Hidden("p", TextBody)>>


-----------------------------------------------------------------------------
(* process_file, lines 1143-1159: the stream merge *)

\* ptable_stream.strip() is empty
BlankStream(stream) ==
    \A i \in 1..Len(stream) :
        stream[i].tag = "#text" /\ Strip(stream[i].text) = <<>>

\* "\n".join(pieces), as html.parser reads it
JoinLines(pieces) == ToHtml(Join(pieces, <<Txt(<<"\n">>)>>))

\* (top_level_kept with the paragraphs dropped on the DOM path only)
TopLevelWithoutDomParagraphs(structured, dom_only) ==
    SelectSeq(structured, LAMBDA n : IsTag(n) /\ (n.tag # "p" \/ ~ dom_only))

\* Lines 1146-1153: top_level_kept; a paragraph is dropped on the CSS path
\* only
TopLevelKept(structured, dom_only) ==
    SelectSeq(structured, LAMBDA n : IsTag(n) /\ (n.tag # "p" \/ dom_only))

\* Lines 1143-1159: merged_stream
MergeStreams(structured, ptable, dom_only) ==
    LET kept == TopLevelKept(structured, dom_only)
    IN  IF ~ BlankStream(ptable)
        THEN JoinLines([i \in 1..Len(kept) |-> <<kept[i]>>] \o <<ptable>>)
        ELSE structured

\* process_file, lines 1143-1159
Merge ==
    /\ fpc = "merge"
    /\ merged_stream' = MergeStreams(structured_dom, ptable_stream, use_dom_tables_only)
    /\ source_stream' = merged_stream'
    /\ stage' = "aside"
    /\ fpc' = "passes"
    /\ UNCHANGED <<html_fragment, footer_html, page_num, h1_candidates,
                   chosen_h1, text_content>>
    /\ UNCHANGED <<html_src, feature_titles, structured_dom, ptable_stream,
                   use_dom_tables_only, patch_enabled, outputs, info>>

\* The top-level nodes extract_structured_dom_from_html writes
StructuralNodes ==
    { Hidden("h2", TextTitle), Hidden("p", TextBody), Hidden("p", TextNext),
      FeatureAside(TextTitle, TextBody), FigureOf(Img(TextA, TextB)) }

MaxStructuralNodes == 3

\* <table class="text-hidden"> with one cell
HiddenTable(s) ==
    El("table", "text-hidden", <<El("tr", "", <<El("td", "", <<Txt(s)>>)>>)>>)

\* The streams _build_ptable_stream_from_dom writes: tables and lists, a
\* line break between them
DomStreams ==
    { <<>>, <<HiddenTable(TextA)>>, <<El("ol", "", <<El("li", "", <<Txt(TextA)>>)>>)>>,
      <<HiddenTable(TextA), Txt(<<"\n">>), HiddenTable(TextB)>> }

\* The streams _build_ptable_stream_from_css writes: the tags of the
\* rendered page
CssStreams ==
    { <<>>, <<Hidden("p", TextRaw)>>, <<HiddenTable(TextA)>>,
      <<Hidden("p", TextRaw), HiddenTable(TextA)>> }

InitMerge ==
    /\ IdleJobs
    /\ IdleFolder
    /\ IdleFile
    /\ IdleTable
    /\ IdlePatch
    /\ fpc = "merge"
    /\ html_src = <<>>
    /\ feature_titles = <<>>
    /\ structured_dom \in FragmentsOf(StructuralNodes, MaxStructuralNodes)
    /\ use_dom_tables_only \in BOOLEAN
    /\ ptable_stream \in IF use_dom_tables_only THEN DomStreams ELSE CssStreams
    /\ patch_enabled = FALSE
    /\ outputs = NoFiles
    /\ info = NoRow

NextMerge == Merge /\ UNCHANGED <<folderVars, tableVars, patchVars, jobVars>>

SpecMerge == InitMerge /\ [][NextMerge]_vars

\* The top-level tags of a stream
TagsOf(stream) == SelectSeq(stream, IsTag)

NotParagraph(n) == n.tag # "p"

\* C19, as stated: with a table/list stream that is not empty and comes from
\* a file with table markup, the merged stream is the structural stream's
\* top-level nodes that are no paragraphs, followed by the table/list
\* stream; with an empty table/list stream it is the structural stream.
C19_ParagraphsExcludedForLiteralTables ==
    fpc = "passes" =>
        /\ (use_dom_tables_only /\ ~ BlankStream(ptable_stream)) =>
              TagsOf(merged_stream)
                  = SelectSeq(TagsOf(structured_dom), NotParagraph) \o TagsOf(ptable_stream)
        /\ BlankStream(ptable_stream) => merged_stream = structured_dom

\* C19, amended: with a table/list stream that is not empty, the merged
\* stream is top-level nodes of the structural stream followed by the
\* table/list stream, a line break between the pieces: all of the tags when
\* the source holds table markup, the tags that are no paragraphs when the
\* stream comes from the CSS positions; with an empty table/list stream it
\* is the structural stream.
C19_ParagraphsExcludedOnCssPathOnly ==
    fpc = "passes" =>
        /\ (use_dom_tables_only /\ ~ BlankStream(ptable_stream)) =>
              /\ TagsOf(merged_stream) = TagsOf(structured_dom) \o TagsOf(ptable_stream)
              /\ \A i \in 1..Len(structured_dom) :
                    /\ merged_stream[2 * i - 1] = structured_dom[i]
                    /\ merged_stream[2 * i] = Txt(<<"\n">>)
        /\ (~ use_dom_tables_only /\ ~ BlankStream(ptable_stream)) =>
              TagsOf(merged_stream)
                  = SelectSeq(TagsOf(structured_dom), NotParagraph) \o TagsOf(ptable_stream)
        /\ BlankStream(ptable_stream) => merged_stream = structured_dom

\* A file with table markup whose structural stream has a paragraph on top
\* level, and the merged stream keeps the paragraph ahead of the table
C19_Witness ==
    /\ fpc = "passes"
    /\ use_dom_tables_only
    /\ structured_dom = <<Hidden("h2", TextTitle), Hidden("p", TextBody)>>
    /\ ptable_stream = <<HiddenTable(TextA)>>
    /\ merged_stream = <<Hidden("h2", TextTitle), Txt(<<"\n">>), Hidden("p", TextBody),
                         Txt(<<"\n">>), HiddenTable(TextA)>>


-----------------------------------------------------------------------------
(* ensure_paragraphs_end_with_dot on paragraphs that follow one another *)

TextBrand == <<"i", "P", "a", "d">>
TextDigit == <<"7", "x">>
TextDash  == <<"-", " ", "m", "B">>

\* The top-level nodes of the fragments: paragraphs that end in a dot or do
\* not, whose first word begins with a capital, has a capital further on, or
\* has none; a blank string, a figure, a heading
DotsNodes ==
    { P(TextOpen), P(TextDot), P(TextNext), P(TextBrand), P(TextDigit),
      P(TextDash), Txt(TextBlank), Figure, H2(TextTitle) }

MaxDotsNodes == 3

InitDots ==
    /\ IdleJobs
    /\ IdleFolder
    /\ IdleTable
    /\ IdlePatch
    /\ IdleProc
    /\ StartAt("dots", FragmentsOf(DotsNodes, MaxDotsNodes), {<<>>})

NextDots == EnsureDots /\ UNCHANGED notFileVars

SpecDots == InitDots /\ [][NextDots]_vars

\* The first word of a paragraph's text, leading punctuation apart
FirstWordOf(el) == FirstWord(DropLeading(GetTextSep(el), NonWord))

\* The first paragraph of the fragment the pass was run on, and the
\* paragraph that is its next sibling, figures and blank strings apart
FirstParagraph == FindAll(Soup(html_fragment, <<>>), "p")[1]

NextParagraph ==
    SkipIgnorable(SiblingsAfter(Soup(html_fragment, <<>>), FirstParagraph.id))

\* The pass ran, the first paragraph does not end in a dot and the node
\* behind it is a paragraph
OpenBeforeParagraph ==
    /\ stage = "footer"
    /\ FindAll(html_fragment, "p") # <<>>
    /\ ~ EndsWithDot(FirstParagraph)
    /\ NextParagraph # <<>>
    /\ NextParagraph[1].tag = "p"

\* The first paragraph of the result is the first paragraph, one space and
\* the paragraph behind it, and that paragraph is gone
Absorbed ==
    /\ IsPrefix(GetText(FirstParagraph) \o <<" ">> \o GetText(NextParagraph[1]),
                GetText(FindAll(merged_stream, "p")[1]))
    /\ Len(FindAll(merged_stream, "p")) < Len(FindAll(html_fragment, "p"))

\* C20, as stated: a paragraph that does not end in a dot absorbs the
\* paragraph behind it if and only if that paragraph's first word does not
\* begin with an uppercase letter.
C20_MergedUnlessBeginsUppercase ==
    OpenBeforeParagraph =>
        (Absorbed <=> FirstWordOf(NextParagraph[1])[1] \notin Upper)

\* C20, amended: a paragraph that does not end in a dot absorbs the
\* paragraph behind it, with one space between the two, if and only if no
\* character of that paragraph's first word is an uppercase letter; a
\* paragraph that is not absorbed leaves the first paragraph as it was.
C20_MergedUnlessAnyUppercase ==
    OpenBeforeParagraph =>
        /\ Absorbed <=>
              \A i \in 1..Len(FirstWordOf(NextParagraph[1])) :
                  FirstWordOf(NextParagraph[1])[i] \notin Upper
        /\ Absorbed \/ GetText(FindAll(merged_stream, "p")[1]) = GetText(FirstParagraph)

\* A paragraph without a dot in front of one whose first word has a capital
\* behind a lowercase first letter: the two stay apart
C20_Witness ==
    /\ stage = "footer"
    /\ html_fragment = <<P(TextOpen), P(TextBrand)>>
    /\ merged_stream = html_fragment

\* A paragraph without a dot in front of one whose first word is a digit and
\* a lowercase letter: the two are one paragraph
C20_DigitMerged ==
    /\ stage = "footer"
    /\ html_fragment = <<P(TextOpen), P(TextDigit)>>
    /\ merged_stream = <<P(TextOpen \o <<" ">> \o TextDigit)>>


-----------------------------------------------------------------------------
(* render_page_with_tables, lines 874-901, and _build_ptable_stream_from_css *)

RenderYTol == 8

\* Lines 874-878: the blocks after maybe_fact_to_ol
Collapsed(bs) ==
    [i \in 1..Len(bs) |->
        IF MaybeFactToOl(bs[i]) # <<>>
        THEN [bs[i] EXCEPT !.html = MaybeFactToOl(bs[i]), !.kind = "ol_from_fact"]
        ELSE bs[i]]

\* Lines 880-882: used
UsedBy(bs) == UNION {bs[i].used_idx : i \in 1..Len(bs)}

\* (no token is left for the paragraphs)
NoTokens(all, bs) == <<>>

\* Line 884: non_table_tokens
NonTableTokens(all, bs) == SelectSeq(all, LAMBDA t : t.idx \notin UsedBy(bs))

\* key=lambda x: x['y'], on twice the value
ByY2(a, b) == a.y2 < b.y2

\* Lines 885-896: items in the order of y; y2 is twice y
RenderItems(all, bs) ==
    LET lines == GroupByY(NonTableTokens(all, bs), RenderYTol)
        texts == [i \in 1..Len(lines) |->
                     [y2 |-> 2 * lines[i].y, text |-> LineText(lines[i].items)]]
        kept == SelectSeq(texts, LAMBDA r : r.text # <<>>)
        ps == [i \in 1..Len(kept) |-> [y2 |-> kept[i].y2, html |-> <<P(kept[i].text)>>]]
        tables == [i \in 1..Len(bs) |->
                      [y2 |-> bs[i].ymin + bs[i].ymax, html |-> Collapsed(bs)[i].html]]
    IN  StableSort(ps \o tables, ByY2)

\* Line 838: the children of <body> when there is no token
NoTokensPage ==
    <<Cmt(<<" ", "n", "o", " ", "t", "o", "k", "e", "n", "s", " ">>)>>

\* Lines 874-901: the children of <body> in the rendered page, for tokens
\* that are not empty
RenderPageWithTables(all, bs) ==
    LET items == RenderItems(all, bs)
    IN  ToHtml(<<Txt(<<"\n">>)>>
                 \o Concat([i \in 1..Len(items) |-> items[i].html \o <<Txt(<<"\n">>)>>]))

\* render_page_with_tables, lines 874-901
Render ==
    /\ tpc = "resolved"
    /\ page_html' = RenderPageWithTables(tokens, chosen)
    /\ tpc' = "rendered"
    /\ UNCHANGED <<tokens, y_tol, min_rows, grouped, regrouped, comparison, fact,
                   block, rendered, blocks, chosen>>

\* Lines 1008-1023: every <p> and <table> gets the class text-hidden
RECURSIVE HideAll(_)
HideAll(kids) ==
    [i \in 1..Len(kids) |->
        [kids[i] EXCEPT !.cls = IF kids[i].tag \in {"p", "table"} THEN "text-hidden" ELSE @,
                        !.kids = HideAll(@)]]

\* _build_ptable_stream_from_css, lines 1007-1025, from the rendered page
BuildPtableStreamFromCss(page) == SelectSeq(HideAll(page), IsTag)

-----------------------------------------------------------------------------
(* process_file from its read to its return, for a source without <table> *)

\* A byte that is no UTF-8 sequence on its own and a letter in cp1252
HighByte == "0xE9"

\* bytes.decode("utf-8", errors="ignore"): the bytes that are no UTF-8 are
\* left out
RECURSIVE DecodeIgnoring(_)
DecodeIgnoring(kids) ==
    [i \in 1..Len(kids) |->
        [kids[i] EXCEPT !.text = SelectSeq(@, LAMBDA c : c # HighByte),
                        !.kids = DecodeIgnoring(@)]]

\* Lines 1123-1127: html_src; read_text raising leaves ""
ReadSource(content, io) ==
    IF io = "read raises" THEN <<>> ELSE ToHtml(DecodeIgnoring(content))

\* process_file, lines 1123-1127
Read ==
    /\ fpc = "read"
    /\ \E io \in {"ok", "read raises"} : html_src' = ReadSource(source_file, io)
    /\ fpc' = "extract"
    /\ UNCHANGED <<feature_titles, structured_dom, ptable_stream, use_dom_tables_only,
                   patch_enabled, outputs, info>>

\* The sets of tokens of Page that the style sheets may position: the header
\* line, the two lines below it, the third line, the label in the second
\* column, the two labels of the fact class
TokenGroups == {1..3, 4..9, 10..12, {13}, {14, 15}}

\* process_file, lines 1133-1140, and render_page_with_tables, lines
\* 836-838, for a source without <table>: collect_tokens
CollectTokens ==
    /\ fpc = "tables"
    /\ tpc = "idle"
    /\ FindAll(html_src, "table") = <<>>
    /\ \E groups \in SUBSET TokenGroups : tokens' = TokensOf(Page, UNION groups)
    /\ min_rows' = DefaultMinRows
    /\ IF tokens' = <<>>
       THEN tpc' = "rendered" /\ page_html' = NoTokensPage
       ELSE tpc' = "comparison" /\ page_html' = page_html
    /\ UNCHANGED <<y_tol, grouped, regrouped, comparison, fact, block, rendered,
                   blocks, chosen>>

\* process_file, line 1140
BuildPtableStream ==
    /\ fpc = "tables"
    /\ tpc = "rendered"
    /\ ptable_stream' = BuildPtableStreamFromCss(page_html)
    /\ use_dom_tables_only' = FALSE
    /\ fpc' = "merge"
    /\ UNCHANGED <<html_src, feature_titles, structured_dom, patch_enabled, outputs,
                   info>>

\* Lines 1172-1174: hgroup_html
HgroupHtml(title) ==
    IF title = None THEN <<>>
    ELSE <<El("hgroup", "", <<Txt(<<"\n">>), Hidden("h1", title), Txt(<<"\n">>)>>),
           Txt(<<"\n">>)>>

\* build_insertion_fragment(hgroup_html, structured_content, footer_html)
BuildInsertionFragment(hgroup, content, footer) ==
    ToHtml(<<Main(<<Txt(<<"\n">>)>> \o hgroup \o content \o <<Txt(<<"\n">>)>>),
             Txt(<<"\n">>)>> \o footer)

\* process_file, lines 1211-1220: the two files of output_folder; mkdir or
\* the writes raising ends process_file
WriteOutputs ==
    /\ fpc = "passes"
    /\ stage = "done"
    /\ \E io \in {"ok", "mkdir raises"} :
          IF io = "ok"
          THEN /\ outputs' = [html |-> BuildInsertionFragment(HgroupHtml(chosen_h1),
                                                              merged_stream, footer_html),
                              txt |-> text_content]
               /\ fpc' = IF patch_enabled THEN "patch" ELSE "return"
          ELSE /\ outputs' = outputs
               /\ fpc' = "raised"
    /\ UNCHANGED <<html_src, feature_titles, structured_dom, ptable_stream,
                   use_dom_tables_only, patch_enabled, info>>

\* process_file, line 1226
BuildFragment ==
    /\ fpc = "patch"
    /\ ppc = "idle"
    /\ insertion_fragment' = BuildInsertionFragment(HgroupHtml(chosen_h1),
                                                     merged_stream, footer_html)
    /\ ppc' = "call"
    /\ UNCHANGED <<original_file, previous_file, source_file, patch_soup, patched,
                   patch_note, patch_calls, patch_successes, file_encoding,
                   read_attempts>>

\* process_file, lines 1227-1232: the one call of patch_source_file
PatchOnce == Patch /\ fpc = "patch" /\ patch_calls = 0

\* Lines 1235-1243: the report row
Info(footer, number, ok, note) ==
    [has_footer |-> ~ BlankStream(footer),
     page_number |-> IF number = None THEN <<>> ELSE number,
     patched |-> ok,
     patch_note |-> note]

\* process_file, lines 1235-1243
Return ==
    /\ \/ fpc = "return"
       \/ fpc = "patch" /\ patch_calls = 1
    /\ info' = Info(footer_html, page_num, patched, patch_note)
    /\ fpc' = "returned"
    /\ UNCHANGED <<html_src, feature_titles, structured_dom, ptable_stream,
                   use_dom_tables_only, patch_enabled, outputs>>

TextCafe == <<"c", "a", "f", HighByte>>

\* The source files: a heading and a paragraph, the anchor and a paragraph
\* with a cp1252 letter, a paragraph that is one cp1252 letter, nothing, a
\* page with its number "007" behind the text, a page with its number in
\* Arabic-Indic digits
ProcFiles ==
    { <<Body(<<H2(TextTitle), P(TextBody)>>)>>,
      <<Body(<<Anchor(<<>>), H2(TextTitle), P(TextCafe)>>)>>,
      <<P(<<HighByte>>)>>,
      <<>>,
      <<Body(<<P(TextBody), P(TextZeros7)>>)>>,
      <<Body(<<P(TextBody), P(<<ArabicThree>>)>>)>> }

\* The bytes of the file are UTF-8
IsUtf8(kids) ==
    \A i \in 1..Len(Descendants(kids)) :
        \A k \in 1..Len(Descendants(kids)[i].text) :
            Descendants(kids)[i].text[k] # HighByte

InitProcess ==
    /\ IdleJobs
    /\ IdleFolder
    /\ IdleTable
    /\ stage = "idle"
    /\ source_stream = <<>>
    /\ html_fragment = <<>>
    /\ merged_stream = <<>>
    /\ footer_html = <<>>
    /\ page_num = None
    /\ h1_candidates = <<TextTitle>>
    /\ chosen_h1 = None
    /\ text_content = <<>>
    /\ ppc = "idle"
    /\ source_file \in ProcFiles
    /\ original_file = source_file
    /\ previous_file = source_file
    /\ insertion_fragment = <<>>
    /\ patch_soup = <<>>
    /\ patched = FALSE
    /\ patch_note = [kind |-> "none"]
    /\ patch_calls = 0
    /\ patch_successes = 0
    /\ file_encoding = IF IsUtf8(source_file) THEN "utf-8" ELSE "cp1252"
    /\ read_attempts = <<>>
    /\ fpc = "read"
    /\ html_src = <<>>
    /\ feature_titles \in {<<>>, <<TextTitle>>}
    /\ structured_dom = <<>>
    /\ ptable_stream = <<>>
    /\ use_dom_tables_only = FALSE
    /\ patch_enabled \in BOOLEAN
    /\ outputs = NoFiles
    /\ info = NoRow

NextProcess ==
    \/ /\ \/ Read
          \/ Extract
          \/ BuildPtableStream
          \/ Return
       /\ UNCHANGED notProcVars
    \/ /\ \/ CollectTokens
          \/ DetectComparison
          \/ DetectFact
          \/ Resolve
          \/ Render
       /\ UNCHANGED notTableVars
    \/ /\ Merge
       /\ UNCHANGED <<folderVars, tableVars, patchVars, jobVars>>
    \/ /\ \/ MergeAside
          \/ ConvertLists
          \/ EnsureDots
          \/ MovePageNumberToFooter
          \/ InjectH1
          \/ RecomputeText
       /\ UNCHANGED notFileVars
    \/ /\ WriteOutputs
       /\ UNCHANGED notProcVars
    \/ /\ \/ BuildFragment
          \/ PatchOnce
       /\ UNCHANGED notPatchVars

SpecProcess == InitProcess /\ [][NextProcess]_vars


-----------------------------------------------------------------------------
(* Properties of process_file's read and of the detectors' exceptions *)

\* s.split(" ") without the empty words
RECURSIVE Words(_)
Words(s) ==
    IF s = <<>> THEN <<>>
    ELSE IF s[1] = " " THEN Words(Tail(s))
    ELSE LET w == FirstWord(s)
         IN  <<w>> \o Words(SubSeq(s, Len(w) + 1, Len(s)))

\* The words of the top-level paragraphs of a page
ParagraphWords(page) ==
    LET ps == SelectSeq(page, LAMBDA n : n.tag = "p")
    IN  Concat([i \in 1..Len(ps) |-> Words(GetText(ps[i]))])

\* The tokens that no block of bs has claimed
Unclaimed(all, bs) ==
    {i \in 1..Len(all) : \A k \in 1..Len(bs) : all[i].idx \notin bs[k].used_idx}

\* process_file is at one of its steps behind the detectors, none of which
\* waits for anything
AtAStep ==
    \/ fpc = "tables" /\ tpc \in {"detected", "resolved", "rendered"}
    \/ fpc = "merge"
    \/ fpc = "passes" /\ stage \in {"aside", "lists", "dots", "footer", "h1", "text", "done"}
    \/ fpc = "patch" /\ (ppc = "idle" \/ (ppc = "call" /\ patch_calls \in {0, 1}))
    \/ fpc = "return"

\* C15: when detect_fact_table raises, the comparison detector's outcome is
\* the only entry of blocks and is accepted when it is a block; the rendered
\* page has every token that no accepted block claims in a paragraph, once;
\* no pass of process_file raises; process_file is at one of its steps until
\* it has returned a row, with the two output files written, and it ends
\* without a row only when output_folder cannot be written.
C15_DetectorExceptionPassedOver ==
    fact = NameError =>
        /\ blocks = <<comparison>>
        /\ comparison = DetectComparisonTable(tokens, DefaultMinRows)
        /\ tpc \in {"resolved", "rendered"} =>
              chosen = IF IsBlock(comparison) THEN <<comparison>> ELSE <<>>
        /\ tpc = "rendered" =>
              \A w \in {tokens[i].text : i \in 1..Len(tokens)} :
                  Cardinality({k \in 1..Len(ParagraphWords(page_html)) :
                                  ParagraphWords(page_html)[k] = w})
                    = Cardinality({i \in Unclaimed(tokens, chosen) : tokens[i].text = w})
        /\ stage # "raised"
        /\ fpc \notin {"returned", "raised"} => AtAStep
        /\ fpc = "raised" => stage = "done" /\ outputs = NoFiles
        /\ fpc = "returned" => info # NoRow /\ outputs # NoFiles

\* detect_fact_table raised, detect_comparison_table found a block, two
\* tokens outside the block are a paragraph of the table/list stream, and
\* process_file has returned its row
C15_Witness ==
    /\ fpc = "returned"
    /\ fact = NameError
    /\ IsBlock(comparison)
    /\ chosen = <<comparison>>
    /\ Cardinality(Unclaimed(tokens, chosen)) = 2
    /\ \E i \in 1..Len(ptable_stream) : ptable_stream[i].tag = "p"
    /\ \E i \in 1..Len(ptable_stream) : ptable_stream[i].tag = "table"
    /\ info # NoRow

\* C14, as stated: for a source file that is no UTF-8, process_file goes on
\* with the text of the fallback encoding or ends in an error; it does not go
\* on with empty or partial content.
C14_UndecodableSourceFails ==
    (~ IsUtf8(original_file) /\ fpc # "read") =>
        \/ html_src = ToHtml(original_file)
        \/ fpc = "raised" /\ outputs = NoFiles /\ info = NoRow

\* A source file that is no UTF-8: process_file has read it without the
\* bytes that are no UTF-8, has written the output files and has returned
\* its row
C14_PartialContentReturned ==
    /\ fpc = "returned"
    /\ original_file = <<Body(<<Anchor(<<>>), H2(TextTitle), P(TextCafe)>>)>>
    /\ html_src = <<Body(<<Anchor(<<>>), H2(TextTitle), P(<<"c", "a", "f">>)>>)>>
    /\ outputs # NoFiles
    /\ info # NoRow


-----------------------------------------------------------------------------
(* recompute_text_from_html_fragment on lists *)

\* <ol type=t start=n>, n = -1 for no start attribute
TypedOl(t, n, items) == [El("ol", "", items) EXCEPT !.type = t, !.start = n]

\* The top-level nodes: ordered lists of the types A, a, 1 and I and without
\* a type, with and without a start, an unordered list, lists in lists
ListNodes ==
    { TypedOl("A", -1, <<Li(TextA), Li(TextB)>>),
      TypedOl("a", -1, <<Li(TextA), Li(TextB)>>),
      TypedOl("a", 3, <<Li(TextA)>>),
      TypedOl("A", 2, <<Li(TextA), Li(<<>>), Li(TextB)>>),
      TypedOl("1", 4, <<Li(TextA), Li(TextB)>>),
      TypedOl("I", -1, <<Li(TextA)>>),
      TypedOl("", 9, <<Li(TextA), Li(TextB)>>),
      Ul(<<Li(TextA), Li(TextB)>>),
      TypedOl("", -1, <<El("li", "", <<Txt(TextA),
                           TypedOl("a", -1, <<El("li", "", <<Txt(TextB),
                               Ul(<<Li(TextRaw)>>)>>)>>)>>)>>),
      Ul(<<El("li", "", <<TypedOl("A", 2, <<Li(TextB)>>), Txt(TextA)>>)>>),
      P(TextBody) }

MaxListNodes == 2

InitMarkers ==
    /\ IdleJobs
    /\ IdleFolder
    /\ IdleTable
    /\ IdlePatch
    /\ IdleProc
    /\ StartAt("text", FragmentsOf(ListNodes, MaxListNodes), {<<>>})

NextMarkers == RecomputeText /\ UNCHANGED notFileVars

SpecMarkers == InitMarkers /\ [][NextMarkers]_vars

\* The marker of the item at position i (from 0) of a list: by the type and
\* the start the list declares
DeclaredMarker(list_tag, i) ==
    LET first == IF list_tag.start = -1 THEN 1 ELSE list_tag.start
    IN  IF list_tag.tag = "ul" THEN <<"-", " ">>
        ELSE IF list_tag.type = "A" THEN <<UpperLetters[first + i], ".", " ">>
        ELSE IF list_tag.type = "a" THEN <<LowerChar(UpperLetters[first + i]), ".", " ">>
        ELSE IntToStr(first + i) \o <<".", " ">>

\* The marker with the letter of both letter types in upper case
UppercaseMarker(list_tag, i) ==
    LET first == IF list_tag.start = -1 THEN 1 ELSE list_tag.start
    IN  IF list_tag.tag = "ul" THEN <<"-", " ">>
        ELSE IF list_tag.type \in {"A", "a"} THEN <<UpperLetters[first + i], ".", " ">>
        ELSE IntToStr(first + i) \o <<".", " ">>

\* The text of an item without the lists and tables in it
OwnText(li) ==
    LET own == SelectSeq(li.kids, LAMBDA c : c.tag \notin {"ol", "ul", "table"})
    IN  Clean(Join([k \in 1..Len(own) |-> GetTextSep(own[k])], <<" ">>))

\* The lines of a list at a nesting depth: one line per item with text,
\* two columns in per depth, the lines of the lists in the item behind it;
\* lower says whether type "a" has lowercase letters
RECURSIVE ListLines(_, _, _)
ListLines(list_tag, depth, lower) ==
    LET lis == SelectSeq(list_tag.kids, LAMBDA c : c.tag = "li")
        marker(i) == IF lower THEN DeclaredMarker(list_tag, i)
                     ELSE UppercaseMarker(list_tag, i)
        inner(li) == SelectSeq(li.kids, LAMBDA c : c.tag \in {"ol", "ul"})
    IN  Concat([n \in 1..Len(lis) |->
            (IF OwnText(lis[n]) # <<>>
             THEN <<Indent(2 * depth) \o marker(n - 1) \o OwnText(lis[n])>>
             ELSE <<>>)
            \o Concat([k \in 1..Len(inner(lis[n])) |->
                          ListLines(inner(lis[n])[k], depth + 1, lower)])])

\* The lines of a fragment of lists and paragraphs
FragmentLines(html, lower) ==
    Concat([i \in 1..Len(html) |->
               IF html[i].tag \in {"ol", "ul"} THEN ListLines(html[i], 0, lower)
               ELSE LinesOfNode(html[i])])

\* C21, as stated: the marker of an item follows the list's declared type
\* and start: type "A" the uppercase letter, type "a" the lowercase letter,
\* any other type the decimal number, an unordered list "- "; nested lists
\* are two columns in per depth and their text is not in the parent's line.
C21_MarkerFollowsDeclaredType ==
    stage = "done" =>
        text_content = Join(FragmentLines(html_fragment, TRUE), <<"\n", "\n">>)

\* What holds of the code: the same lines, with the uppercase letter for
\* type "a" as for type "A"
C21_LetterTypesGiveUppercase ==
    stage = "done" =>
        text_content = Join(FragmentLines(html_fragment, FALSE), <<"\n", "\n">>)

\* A list of type "a" that starts at 3: the text of its item is "C. a"
C21_LowercaseTypeGivesUppercase ==
    /\ stage = "done"
    /\ html_fragment = <<TypedOl("a", 3, <<Li(TextA)>>)>>
    /\ text_content = <<"C", ".", " ">> \o TextA


-----------------------------------------------------------------------------
(* _table_to_ol_if_numbered and _build_ptable_stream_from_dom *)

\* The rows a DOM table must yield at least
DomOlMinRows == 3

\* Lines 933-947: what one <tr> adds to rows: skip, stop (return None), or
\* the pair of the number and the value
DomRow(tr) ==
    LET cells == SelectSeq(tr.kids, LAMBDA c : c.tag \in {"th", "td"})
        left == TidyText(GetTextSep(cells[1]))
        right == TidyText(Join([k \in 1..(Len(cells) - 1) |-> GetTextSep(cells[k + 1])],
                               <<" ">>))
    IN  IF cells = <<>> THEN [act |-> "skip"]
        ELSE IF \E k \in 1..Len(cells) : cells[k].tag = "th" THEN [act |-> "skip"]
        ELSE IF Len(cells) < 2 THEN [act |-> "skip"]
        ELSE IF right = <<>> THEN [act |-> "skip"]
        ELSE IF ~ NumLabelRe(left).ok THEN [act |-> "stop"]
        ELSE [act |-> "row", n |-> StrToInt(NumLabelRe(left).digits), right |-> right]

\* _table_to_ol_if_numbered(tb): the list's markup, or <<>> for None
TableToOlIfNumbered(tb) ==
    LET trs == FindAll(tb.kids, "tr")
        each == [i \in 1..Len(trs) |-> DomRow(trs[i])]
        found == SelectSeq(each, LAMBDA r : r.act = "row")
    IN  IF \E i \in 1..Len(each) : each[i].act = "stop" THEN <<>>
        ELSE IF Len(found) < DomOlMinRows THEN <<>>
        ELSE IF \E k \in 1..Len(found) : found[k].n # found[1].n + k - 1 THEN <<>>
        ELSE BuildHtmlOl([k \in 1..Len(found) |-> found[k].right], found[1].n)

\* sanitize_table(tb): the table with the class text-hidden
SanitizeTable(tb) == <<[tb EXCEPT !.cls = "text-hidden"]>>

\* _build_ptable_stream_from_dom(html_str): "\n".join(parts)
BuildPtableStreamFromDom(html) ==
    LET tables == FindAll(ToHtml(html), "table")
        part(tb) == IF TableToOlIfNumbered(tb) # <<>> THEN TableToOlIfNumbered(tb)
                    ELSE SanitizeTable(tb)
    IN  ToHtml(Join([i \in 1..Len(tables) |-> part(tables[i])], <<Txt(<<"\n">>)>>))

\* process_file, lines 1133-1137, for a source with <table>
BuildPtableStreamDom ==
    /\ fpc = "tables"
    /\ FindAll(html_src, "table") # <<>>
    /\ ptable_stream' = BuildPtableStreamFromDom(html_src)
    /\ use_dom_tables_only' = TRUE
    /\ fpc' = "merge"
    /\ UNCHANGED <<html_src, feature_titles, structured_dom, patch_enabled, outputs,
                   info>>

\* <tr> of cells of the tag
CellsRow(tag, cells) ==
    El("tr", "", [c \in 1..Len(cells) |->
                     El(tag, "", IF cells[c] = <<>> THEN <<>> ELSE <<Txt(cells[c])>>)])

\* The rows of a table: the numbers 1 to 4 with a value, 4 without one, a
\* header row, a row of one cell, a row with a label that is no number
TableRows ==
    { CellsRow("td", <<<<"1">>, TextV>>), CellsRow("td", <<<<"2", ".">>, TextV>>),
      CellsRow("td", <<<<"3">>, TextV, TextB>>), CellsRow("td", <<<<"4">>, TextV>>),
      CellsRow("td", <<<<"4">>, <<>>>>), CellsRow("th", <<TextH, TextH>>),
      CellsRow("td", <<<<"2">>>>), CellsRow("td", <<TextL, TextV>>) }

MaxTableRows == 4

InitDomTable ==
    /\ IdleJobs
    /\ IdleFolder
    /\ IdleFile
    /\ IdleTable
    /\ IdlePatch
    /\ fpc = "tables"
    /\ \E trs \in FragmentsOf(TableRows, MaxTableRows) :
          html_src = <<P(TextBody), El("table", "", trs)>>
    /\ feature_titles = <<>>
    /\ structured_dom = <<Hidden("p", TextBody)>>
    /\ ptable_stream = <<>>
    /\ use_dom_tables_only = FALSE
    /\ patch_enabled = FALSE
    /\ outputs = NoFiles
    /\ info = NoRow

NextDomTable == BuildPtableStreamDom /\ UNCHANGED notProcVars

SpecDomTable == InitDomTable /\ [][NextDomTable]_vars

\* The rows of the source's table
SourceRows == FindAll(html_src, "tr")

\* The cells of a row
CellsOf(tr) == SelectSeq(tr.kids, LAMBDA c : c.tag \in {"th", "td"})

\* The row is free of header cells, has two cells or more, a value, and a
\* bare integer in its first cell
RowIsNumbered(tr) ==
    /\ \A k \in 1..Len(CellsOf(tr)) : CellsOf(tr)[k].tag = "td"
    /\ Len(CellsOf(tr)) >= 2
    /\ \E k \in 2..Len(CellsOf(tr)) : Strip(GetText(CellsOf(tr)[k])) # <<>>
    /\ BareInteger(GetText(CellsOf(tr)[1])) # <<>>

\* The table/list stream is a list
IsCollapsed == Len(ptable_stream) = 1 /\ ptable_stream[1].tag = "ol"

\* C22, as stated: a table becomes a list only if every row of it is
\* numbered, the integers ascending without a gap, and a table with a row
\* that has a header cell, fewer than two cells or no value is kept as a
\* table.
C22_DomCollapseAllOrNothing ==
    fpc = "merge" =>
        /\ IsCollapsed =>
              /\ \A i \in 1..Len(SourceRows) : RowIsNumbered(SourceRows[i])
              /\ \A i \in 1..Len(SourceRows) :
                    StrToInt(BareInteger(GetText(CellsOf(SourceRows[i])[1]))[1])
                      = StrToInt(BareInteger(GetText(CellsOf(SourceRows[1])[1]))[1]) + i - 1
        /\ (\E i \in 1..Len(SourceRows) : ~ RowIsNumbered(SourceRows[i])) =>
              ptable_stream = SanitizeTable(html_src[2])

\* What holds of the code: rows with a header cell, fewer than two cells or
\* no value are left out, and the table becomes a list of the rows that
\* remain when these are three or more, numbered, ascending without a gap
C22_DomCollapseLeavesRowsOut ==
    fpc = "merge" =>
        LET counted == SelectSeq(SourceRows, LAMBDA tr :
                           /\ \A k \in 1..Len(CellsOf(tr)) : CellsOf(tr)[k].tag = "td"
                           /\ Len(CellsOf(tr)) >= 2
                           /\ \E k \in 2..Len(CellsOf(tr)) :
                                 Strip(GetText(CellsOf(tr)[k])) # <<>>)
            number(tr) == StrToInt(BareInteger(GetText(CellsOf(tr)[1]))[1])
        IN  IsCollapsed <=>
                /\ Len(counted) >= 3
                /\ \A i \in 1..Len(counted) :
                      BareInteger(GetText(CellsOf(counted[i])[1])) # <<>>
                /\ \A i \in 1..Len(counted) : number(counted[i]) = number(counted[1]) + i - 1

\* The labels 1, 2, 3, 4 with the value of row 4 missing: the stream is the
\* list of the first three rows
C22_RowWithoutValueDropped ==
    /\ fpc = "merge"
    /\ html_src[2].kids = << CellsRow("td", <<<<"1">>, TextV>>),
                             CellsRow("td", <<<<"2", ".">>, TextV>>),
                             CellsRow("td", <<<<"3">>, TextV, TextB>>),
                             CellsRow("td", <<<<"4">>, <<>>>>) >>
    /\ IsCollapsed
    /\ Len(SelectSeq(ptable_stream[1].kids, LAMBDA c : c.tag = "li")) = 3

-----------------------------------------------------------------------------
(* Properties of the report row of process_file *)

\* The texts of the paragraphs of the footer fragment
FooterTexts == ParagraphTexts(footer_html)

\* C25, as stated: in every row process_file returns, has_footer is true if
\* and only if page_number is not empty; the footer fragment is not empty
\* exactly when a page number was found, and then it holds one paragraph,
\* whose text is "Page Number n" with n the reported page_number.
C25_FooterNamesReportedNumber ==
    fpc = "returned" =>
        /\ info.has_footer <=> info.page_number # <<>>
        /\ footer_html # <<>> <=> page_num # None
        /\ info.has_footer => FooterTexts = <<PageNumberLabel \o info.page_number>>

\* What holds of the row: has_footer is true if and only if page_number is
\* not empty, and then the one paragraph of the footer is "Page Number n"
\* with n the value of page_number written in ASCII digits.
C25_FooterNamesValueOfNumber ==
    fpc = "returned" =>
        /\ info.has_footer <=> info.page_number # <<>>
        /\ footer_html # <<>> <=> page_num # None
        /\ info.has_footer =>
              /\ Len(FooterTexts) = 1
              /\ IsPrefix(PageNumberLabel, FooterTexts[1])
              /\ Len(FooterTexts[1]) = Len(PageNumberLabel) + Len(info.page_number)
              /\ \A i \in 1..Len(info.page_number) :
                    FooterTexts[1][Len(PageNumberLabel) + i]
                        = DecimalValue(info.page_number[i])

\* A row whose page_number is the Arabic-Indic three while the footer
\* reads "Page Number 3".
C25_FooterDiffersFromRow ==
    /\ fpc = "returned"
    /\ info.has_footer
    /\ info.page_number = <<ArabicThree>>
    /\ FooterTexts = <<PageNumberLabel \o <<"3">>>>

\* A row with a footer whose number is the reported one: "007" gives "7".
C25_FooterAgreesWithRow ==
    /\ fpc = "returned"
    /\ info.has_footer
    /\ info.page_number = <<"7">>
    /\ FooterTexts = <<PageNumberLabel \o <<"7">>>>

-----------------------------------------------------------------------------
(* render_page_with_tables on any tokens of the page *)

\* render_page_with_tables(html_str, css_text) for the style sheets that
\* position any of the tokens of Page, at least one
InitRender ==
    /\ IdleJobs
    /\ IdleFolder
    /\ IdleFile
    /\ IdlePatch
    /\ IdleProc
    /\ tpc = "comparison"
    /\ \E picked \in SUBSET (1..Len(Page)) :
          picked # {} /\ tokens = TokensOf(Page, picked)
    /\ min_rows = DefaultMinRows
    /\ y_tol = 0
    /\ grouped = <<>>
    /\ regrouped = <<>>
    /\ comparison = NoBlock
    /\ fact = NoBlock
    /\ block = NoBlock
    /\ rendered = NoBlock
    /\ blocks = <<>>
    /\ chosen = <<>>
    /\ page_html = <<>>

NextRender ==
    /\ \/ DetectComparison
       \/ DetectFact
       \/ Resolve
       \/ Render
    /\ UNCHANGED notTableVars

SpecRender == InitRender /\ [][NextRender]_vars

(* Properties of render_page_with_tables *)

\* The elements of the rendered page, the paragraphs among them, and the
\* tokens outside every accepted block in the order of collect_tokens
PageItems == SelectSeq(page_html, IsTag)

PageParagraphs == SelectSeq(page_html, LAMBDA n : n.tag = "p")

LeftTokens == SelectSeq(tokens, LAMBDA t : \A k \in 1..Len(chosen) :
                                              t.idx \notin chosen[k].used_idx)

\* The number of words of the first k paragraphs
RECURSIVE WordsUpTo(_)
WordsUpTo(k) ==
    IF k = 0 THEN 0
    ELSE WordsUpTo(k - 1) + Len(Words(GetText(PageParagraphs[k])))

\* The tokens of the k-th paragraph: one per word, in the order of the tokens
TokensOfParagraph(k) == SubSeq(LeftTokens, WordsUpTo(k - 1) + 1, WordsUpTo(k))

\* How many of the first e items are paragraphs, or are blocks
RankOf(e, paragraphs) ==
    Cardinality({i \in 1..e : (PageItems[i].tag = "p") = paragraphs})

\* Twice the y the e-th item was placed at: the y of the first token of a
\* paragraph line, the midpoint of ymin and ymax of a block
ItemY2(e) ==
    IF PageItems[e].tag = "p"
    THEN 2 * TokensOfParagraph(RankOf(e, TRUE))[1].y
    ELSE chosen[RankOf(e, FALSE)].ymin + chosen[RankOf(e, FALSE)].ymax

\* The number of times w is in seq
CountOf(seq, w) == Cardinality({i \in 1..Len(seq) : seq[i] = w})

\* C26: in the rendered page no token of an accepted block is in a
\* paragraph and every other token is in exactly one paragraph line: the
\* paragraphs, in order, hold the tokens outside the accepted blocks in
\* their order, one word per token and every paragraph the tokens of one
\* band of y; the other items are the accepted blocks; and the items are in
\* non-decreasing order of y, a block at the midpoint of ymin and ymax.
C26_TokensAccountedInYOrder ==
    tpc = "rendered" =>
        /\ WordsUpTo(Len(PageParagraphs)) = Len(LeftTokens)
        /\ \A k \in 1..Len(PageParagraphs) :
              LET line == TokensOfParagraph(k)
                  words == Words(GetText(PageParagraphs[k]))
              IN  /\ line # <<>>
                  /\ \A i \in 1..Len(line) :
                        /\ CountOf(words, line[i].text)
                             = CountOf([j \in 1..Len(line) |-> line[j].text], line[i].text)
                        /\ line[i].y - line[1].y <= RenderYTol
                  /\ k > 1 => line[1].y - TokensOfParagraph(k - 1)[1].y > RenderYTol
        /\ Len(PageItems) = Len(PageParagraphs) + Len(chosen)
        /\ \A e \in 1..(Len(PageItems) - 1) : ItemY2(e) <= ItemY2(e + 1)

\* C26's case: a table is accepted; a label in the band of its last row
\* that stands in a value column and two labels of another class inside the
\* bands are left to the paragraphs, which stand around the table by y.
C26_Witness ==
    /\ tpc = "rendered"
    /\ Len(chosen) = 1
    /\ \E i \in 1..Len(LeftTokens) :
          /\ LeftTokens[i].cls = LabelCls
          /\ LeftTokens[i].y \in chosen[1].ymin..chosen[1].ymax
    /\ \E i \in 1..Len(LeftTokens) : LeftTokens[i].cls = FactLabelCls
    /\ \E e \in 2..(Len(PageItems) - 1) :
          /\ PageItems[e].tag = "table"
          /\ PageItems[e - 1].tag = "p"
          /\ PageItems[e + 1].tag = "p"

-----------------------------------------------------------------------------
(* The job registry, the background worker and the routes (app.py) *)

\* The most files process_folder finds in an upload
MaxJobFiles == 2

\* app.py, lines 174-175
ProgressBase == 5
ProgressSpan == 85

\* Lines 182 and 189, 195
PackagingPercent == 92
FinalPercent == 100

\* (the share of the files is not taken: the percent grows by span per file)
PctUnscaled(current, count) == ProgressBase + ProgressSpan * current

\* progress_cb, lines 172-176: base + int((current / max(total, 1)) * span).
\* For total below 85 the float product truncates to floor(85*current/total).
Pct(current, count) ==
    ProgressBase + (ProgressSpan * current) \div (IF count < 1 THEN 1 ELSE count)

\* (the archive is not made: "Packaging results" is followed by "Complete")
UpdateArgsSkippingZip(at, f) ==
    CASE at = "begin" ->
            [percent |-> 2, message |-> "Extracting upload", resume |-> "extract"]
      [] at = "scan" ->
            [percent |-> ProgressBase, message |-> "Scanning files", resume |-> "collect"]
      [] at = "cb_starting" ->
            [percent |-> Pct(f.idx - 1, f.total), message |-> "Starting",
             resume |-> "process_file"]
      [] at = "cb_processed" ->
            [percent |-> Pct(f.idx, f.total), message |-> "Processed",
             resume |-> IF f.idx < f.total THEN "cb_starting" ELSE "report"]
      [] at = "packaging" ->
            [percent |-> PackagingPercent, message |-> "Packaging results",
             resume |-> "complete"]
      [] at = "complete" ->
            [percent |-> FinalPercent, message |-> "Complete", resume |-> "set_done"]

\* The calls of update_progress in worker (lines 154, 168, 177, 182, 189) and
\* in process_folder's callbacks (reading_core.py, lines 1279 and 1292): the
\* arguments and the statement the worker goes on with
UpdateArgs(at, f) ==
    CASE at = "begin" ->
            [percent |-> 2, message |-> "Extracting upload", resume |-> "extract"]
      [] at = "scan" ->
            [percent |-> ProgressBase, message |-> "Scanning files", resume |-> "collect"]
      [] at = "cb_starting" ->
            [percent |-> Pct(f.idx - 1, f.total), message |-> "Starting",
             resume |-> "process_file"]
      [] at = "cb_processed" ->
            [percent |-> Pct(f.idx, f.total), message |-> "Processed",
             resume |-> IF f.idx < f.total THEN "cb_starting" ELSE "report"]
      [] at = "packaging" ->
            [percent |-> PackagingPercent, message |-> "Packaging results",
             resume |-> "zip"]
      [] at = "complete" ->
            [percent |-> FinalPercent, message |-> "Complete", resume |-> "set_done"]

\* Where worker and the callbacks call update_progress
CallSites == {"begin", "scan", "cb_starting", "cb_processed", "packaging", "complete"}

\* worker's thread moves to position at, with the locals f
Goes(j, at, f) ==
    /\ wpc' = [wpc EXCEPT ![j] = at]
    /\ wframe' = [wframe EXCEPT ![j] = f]

\* start, lines 211-220: JOBS[job_id] = {...} for a fresh id
Register(j) ==
    /\ wpc[j] = "absent"
    /\ j \notin DOMAIN JOBS
    /\ JOBS' = [k \in DOMAIN JOBS \cup {j} |->
                   IF k = j
                   THEN [percent |-> 0, message |-> "Queued", done |-> FALSE,
                         error |-> "None", work_dir |-> j, output_zip |-> "None"]
                   ELSE JOBS[k]]
    /\ wpc' = [wpc EXCEPT ![j] = "registered"]
    /\ UNCHANGED <<wframe, archives, response>>

\* start, lines 223-231: the upload is saved and the thread is started, or
\* uploaded.save raises and no thread is started
Spawn(j) ==
    /\ wpc[j] = "registered"
    /\ \/ wpc' = [wpc EXCEPT ![j] = "begin"]
       \/ wpc' = [wpc EXCEPT ![j] = "unstarted"]
    /\ response' = [route |-> "start", job |-> j,
                    code |-> IF wpc'[j] = "begin" THEN 200 ELSE 500, done |-> FALSE]
    /\ UNCHANGED <<JOBS, wframe, archives>>

\* update_progress, lines 139-142: job["percent"] = int(percent)
SetPercent(j) ==
    /\ wpc[j] \in CallSites
    /\ LET args == UpdateArgs(wpc[j], wframe[j])
       IN  /\ JOBS' = IF j \in DOMAIN JOBS
                      THEN [JOBS EXCEPT ![j].percent = args.percent] ELSE JOBS
           /\ Goes(j, "update_message",
                   [wframe[j] EXCEPT
                       !.message = args.message,
                       !.resume = args.resume,
                       !.idx = IF wpc[j] = "cb_processed" /\ @ < wframe[j].total
                               THEN @ + 1 ELSE @])
    /\ UNCHANGED <<archives, response>>

\* update_progress, line 143: job["message"] = message
SetMessage(j) ==
    /\ wpc[j] = "update_message"
    /\ JOBS' = IF j \in DOMAIN JOBS
               THEN [JOBS EXCEPT ![j].message = wframe[j].message] ELSE JOBS
    /\ Goes(j, wframe[j].resume, wframe[j])
    /\ UNCHANGED <<archives, response>>

\* worker, lines 155-161: the upload is extracted, or one of the calls raises
ExtractUpload(j) ==
    /\ wpc[j] = "extract"
    /\ \/ Goes(j, "scan", wframe[j])
       \/ Goes(j, "except", wframe[j])
    /\ UNCHANGED <<JOBS, archives, response>>

\* process_folder, reading_core.py lines 1270-1276: the files are collected;
\* without files it returns None
CollectJobFiles(j) ==
    /\ wpc[j] = "collect"
    /\ \E n \in 0..MaxJobFiles :
          IF n = 0 THEN Goes(j, "packaging", [wframe[j] EXCEPT !.total = 0])
          ELSE Goes(j, "cb_starting", [wframe[j] EXCEPT !.total = n, !.idx = 1])
    /\ UNCHANGED <<JOBS, archives, response>>

\* process_folder, reading_core.py lines 1282-1290: process_file returns a
\* row, or raises
ProcessJobFile(j) ==
    /\ wpc[j] = "process_file"
    /\ \/ Goes(j, "cb_processed", wframe[j])
       \/ Goes(j, "except", wframe[j])
    /\ UNCHANGED <<JOBS, archives, response>>

\* process_folder, reading_core.py lines 1297-1312: the report is written,
\* or its exception is swallowed
WriteJobReport(j) ==
    /\ wpc[j] = "report"
    /\ Goes(j, "packaging", wframe[j])
    /\ UNCHANGED <<JOBS, archives, response>>

\* worker, lines 183-186: results.zip is created and filled, or a call
\* raises, before or after the file is created
WriteZip(j) ==
    /\ wpc[j] = "zip"
    /\ \/ archives' = archives \cup {j} /\ Goes(j, "set_zip", wframe[j])
       \/ archives' \in {archives, archives \cup {j}} /\ Goes(j, "except", wframe[j])
    /\ UNCHANGED <<JOBS, response>>

\* worker, line 188
SetOutputZip(j) ==
    /\ wpc[j] = "set_zip"
    /\ JOBS' = [JOBS EXCEPT ![j].output_zip = "results.zip"]
    /\ Goes(j, "complete", wframe[j])
    /\ UNCHANGED <<archives, response>>

\* worker, line 190
SetDone(j) ==
    /\ wpc[j] = "set_done"
    /\ JOBS' = [JOBS EXCEPT ![j].done = TRUE]
    /\ Goes(j, "finished", wframe[j])
    /\ UNCHANGED <<archives, response>>

\* worker, lines 192-196: the handler's four assignments, one at a time
Except(j) ==
    /\ \/ /\ wpc[j] = "except"
          /\ JOBS' = [JOBS EXCEPT ![j].error = "Processing failed"]
          /\ Goes(j, "except_done", wframe[j])
       \/ /\ wpc[j] = "except_done"
          /\ JOBS' = [JOBS EXCEPT ![j].done = TRUE]
          /\ Goes(j, "except_percent", wframe[j])
       \/ /\ wpc[j] = "except_percent"
          /\ JOBS' = [JOBS EXCEPT ![j].percent = FinalPercent]
          /\ Goes(j, "except_message", wframe[j])
       \/ /\ wpc[j] = "except_message"
          /\ JOBS' = [JOBS EXCEPT ![j].message = "Failed"]
          /\ Goes(j, "finished", wframe[j])
    /\ UNCHANGED <<archives, response>>

\* One statement of the worker thread of job j
Worker(j) ==
    \/ SetPercent(j)
    \/ SetMessage(j)
    \/ ExtractUpload(j)
    \/ CollectJobFiles(j)
    \/ ProcessJobFile(j)
    \/ WriteJobReport(j)
    \/ WriteZip(j)
    \/ SetOutputZip(j)
    \/ SetDone(j)
    \/ Except(j)

\* status, lines 233-243
Status(j) ==
    /\ response' = IF j \in DOMAIN JOBS
                   THEN [route |-> "status", job |-> j, code |-> 200,
                         done |-> JOBS[j].done]
                   ELSE [route |-> "status", job |-> j, code |-> 404, done |-> FALSE]
    /\ UNCHANGED <<JOBS, wpc, wframe, archives>>

\* download_results, lines 247-253 (send_file or "No result available")
Serves(j) ==
    /\ j \in DOMAIN JOBS
    /\ JOBS[j].output_zip # "None"
    /\ j \in archives

\* download_results, lines 245-253; done is what status reports of the job
\* at that moment
DownloadResults(j) ==
    /\ response' = [route |-> "download", job |-> j,
                    code |-> IF Serves(j) THEN 200 ELSE 404,
                    done |-> j \in DOMAIN JOBS /\ JOBS[j].done]
    /\ UNCHANGED <<JOBS, wpc, wframe, archives>>

InitJobs ==
    /\ IdleJobs
    /\ IdleFolder
    /\ IdleFile
    /\ IdleTable
    /\ IdlePatch
    /\ IdleProc

NextJobs ==
    /\ \E j \in JobIds :
          \/ Register(j)
          \/ Spawn(j)
          \/ Worker(j)
          \/ Status(j)
          \/ DownloadResults(j)
    /\ UNCHANGED notJobVars

SpecJobs == InitJobs /\ [][NextJobs]_vars

\* A thread that can run a statement runs it in the end
SpecJobsFair ==
    SpecJobs /\ \A j \in JobIds : WF_jobVars(Worker(j) /\ UNCHANGED notJobVars)

(* Properties of the job registry *)

\* The values percent takes: 0, 2, 5, 5 + floor(85*current/total) for a
\* callback, 92, 100
PercentValues ==
    {0, 2, ProgressBase, PackagingPercent, FinalPercent}
        \cup {ProgressBase + (ProgressSpan * c) \div n :
                c \in 0..MaxJobFiles, n \in 1..MaxJobFiles}

EndedWell(job) ==
    /\ job.error = "None"
    /\ job.message = "Complete"
    /\ job.output_zip # "None"

EndedFailed(job) ==
    /\ job.error # "None"
    /\ job.message = "Failed"

\* C28: every worker that is started comes to its end; at its end the job
\* is done at 100 percent, and either has no error, the message "Complete"
\* and output_zip set, or has an error and the message "Failed"; and in
\* every state a job that is done without an error has output_zip set.
C28_WorkerEndsInFinalState ==
    /\ \A j \in JobIds : (wpc[j] = "begin") ~> (wpc[j] = "finished")
    /\ [](\A j \in DOMAIN JOBS :
              /\ wpc[j] = "finished" =>
                    /\ JOBS[j].done
                    /\ JOBS[j].percent = 100
                    /\ EndedWell(JOBS[j]) \/ EndedFailed(JOBS[j])
              /\ (JOBS[j].done /\ JOBS[j].error = "None") =>
                    JOBS[j].output_zip # "None")

\* C28's case: one worker has ended well and the other has failed.
C28_Witness ==
    \E j, k \in DOMAIN JOBS :
        /\ wpc[j] = "finished" /\ EndedWell(JOBS[j])
        /\ wpc[k] = "finished" /\ EndedFailed(JOBS[k])

C29_DownloadOnlyWhenZipSet ==
    (response.route = "download" /\ response.code = 200) =>
        wpc[response.job] \in {"complete", "update_message", "set_done", "finished"}

====
